---- MODULE Spec2Model ----
(***************************************************************************)
(* Library synchronization and mutation pipeline of folio                  *)
(* (apps/desktop/src-tauri/src/lib.rs): the directory scanner, the pending *)
(* change queue and its applier, and the organize planner.                 *)
(*                                                                         *)
(* Paths are strings, modelled as sequences of one-token strings, so that  *)
(* Path::parent, file_name, file_stem, extension and SQL LIKE are computed *)
(* on the text as the code computes them.                                  *)
(***************************************************************************)
EXTENDS Integers, Sequences, FiniteSets, TLC

VARIABLES fs, fsclock, clock, files, items, issues, changes, sessions, entries,
          scan, batch, plan, ret

vars == <<fs, fsclock, clock, files, items, issues, changes, sessions, entries,
          scan, batch, plan, ret>>

----------------------------------------------------------------------------
(* Bounds of the model.  A command starts only while the bound it names  *)
(* is not reached; a command that has started runs to its end.            *)

(* commands started: every command takes a later timestamp *)
MaxClock == 4
(* changes of the disk made from outside, with three paths in use *)
MaxWrites == 3
(* changes of the disk made from outside, with two paths in use *)
MaxWritesTwo == 4
(* scan sessions *)
MaxScans == 3
(* rows of the files table before a row is added *)
MaxFiles == 3
(* rows of the pending_changes table before a command adds rows *)
MaxChanges == 3
(* length of an explicit id list given to apply *)
MaxIds == 2
(* number of candidates given to merge_author_metadata *)
MaxCandidates == 2
(* commands run in the specification of staged changes *)
MaxClockStaged == 5

----------------------------------------------------------------------------
(* Strings *)

Range(s) == {s[i] : i \in DOMAIN s}

(* the elements of a set of row ids in ascending order *)
RECURSIVE SeqOfSet(_)
SeqOfSet(S) == IF S = {} THEN <<>>
               ELSE LET x == CHOOSE y \in S : \A z \in S : y <= z
                    IN <<x>> \o SeqOfSet(S \ {x})

IsPrefix(s, t) == Len(s) <= Len(t) /\ SubSeq(t, 1, Len(s)) = s

LastIndexOf(s, tok) ==
  IF \E i \in DOMAIN s : s[i] = tok
  THEN CHOOSE i \in DOMAIN s : s[i] = tok /\ \A j \in DOMAIN s : s[j] = tok => j <= i
  ELSE 0

to_lowercase_tok(t) ==
  CASE t = "EPUB" -> "epub"
    [] t = "PDF" -> "pdf"
    [] t = "L" -> "l"
    [] t = "A" -> "a"
    [] t = "-L.jpg" -> "-l.jpg"
    [] OTHER -> t

to_lowercase(s) == [i \in DOMAIN s |-> to_lowercase_tok(s[i])]

(* Option::None where the value is a string *)
None == <<"<none>">>

(* std::path::Path::parent: None for "" and "/", Some("") for a single relative
   component *)
parent(p) ==
  LET i == LastIndexOf(p, "/")
  IN IF p = <<>> \/ p = <<"/">> THEN None
     ELSE IF i = 0 THEN <<>>
     ELSE IF i = 1 THEN <<"/">>
     ELSE SubSeq(p, 1, i - 1)

(* std::path::Path::file_name *)
file_name(p) == SubSeq(p, LastIndexOf(p, "/") + 1, Len(p))

(* std::path::Path::file_stem: the file name up to its last dot *)
file_stem(p) ==
  LET n == file_name(p)
      i == LastIndexOf(n, ".")
  IN IF i <= 1 THEN n ELSE SubSeq(n, 1, i - 1)

(* std::path::Path::extension: the text after the last dot, <<>> for None *)
extension(p) ==
  LET n == file_name(p)
      i == LastIndexOf(n, ".")
  IN IF i <= 1 THEN <<>> ELSE SubSeq(n, i + 1, Len(n))

(* format!(".{}", ext).to_lowercase() of scan_folder_sync *)
dot_ext(p) == <<".">> \o to_lowercase(extension(p))

(* extension().map(|v| format!(".{}", v.to_lowercase())).unwrap_or_default() *)
dot_ext_opt(p) == IF extension(p) = <<>> THEN <<>> ELSE <<".">> \o to_lowercase(extension(p))

(* Path::join: an absolute second path replaces the first *)
join(dir, name) ==
  IF name # <<>> /\ name[1] = "/" THEN name
  ELSE IF dir # <<>> /\ dir[Len(dir)] = "/" THEN dir \o name
  ELSE dir \o <<"/">> \o name

(* Path::strip_prefix(root): the rest of p below directory root, None otherwise *)
strip_prefix(p, root) ==
  IF p = root THEN <<>>
  ELSE IF IsPrefix(root \o <<"/">>, p) THEN SubSeq(p, Len(root) + 2, Len(p))
  ELSE None

(* Path::with_file_name *)
with_file_name(p, name) == IF parent(p) = None THEN name ELSE join(parent(p), name)

(* the directory walk reaches p from root: p lies inside directory root *)
Inside(root, p) == IsPrefix(root \o <<"/">>, p)

(* SQL: path LIKE root || '%' (LIKE is case-insensitive on ASCII) *)
LikePrefix(root, p) == IsPrefix(to_lowercase(root), to_lowercase(p))

----------------------------------------------------------------------------
(* The universe of the model: directories, files and contents *)

DirL == <<"/", "l">>
DirLX == <<"/", "l", "x">>

PA == join(DirL, <<"a", ".", "epub">>)
PB == join(DirL, <<"b", ".", "epub">>)
PC == join(DirL, <<"c", ".", "epub">>)
PX == join(DirLX, <<"a", ".", "epub">>)

UserPaths == {PA, PB, PC}
AllPaths == UserPaths \cup {PX}
Roots == {DirL}

Hashes == {"h1", "h2"}
SizeOf(h) == IF h = "h1" THEN 10 ELSE 20

NoFile == [hash |-> "none", mtime |-> 0]
NoPath == <<>>
NoId == 0

Exists(p) == p \in DOMAIN fs /\ fs[p] # NoFile

Idle == scan.pc = "idle" /\ batch.pc = "idle"

(* Rows of a table (a sequence of records) that satisfy a condition *)
FileIds == DOMAIN files
ChangeIds == DOMAIN changes

----------------------------------------------------------------------------
(* The filesystem, changed from outside the program: a file is created or  *)
(* rewritten (a new modification time; the same content when it is only    *)
(* touched or copied from another path), renamed (keeping content and      *)
(* time), or deleted.  fsclock is the time on the disk's clock: it stamps  *)
(* a written file and advances with every change of the disk.  ret keeps   *)
(* what the last completed operation was and returned; for a change of the *)
(* disk, which change it was and the root whose scan it directly followed. *)

(* the root of the scan that has just completed, None after anything else *)
LastScanRoot == IF ret.op = "scan" /\ ret.ok THEN ret.root ELSE None

FsChange(kind, p, q) ==
  [op |-> "fs", kind |-> kind, path |-> p, to |-> q, fresh |-> fs[q] = NoFile,
   after |-> LastScanRoot]

FsWrite(p, h) ==
  /\ Idle
  /\ fsclock' = fsclock + 1
  /\ fs' = [fs EXCEPT ![p] = [hash |-> h, mtime |-> fsclock + 1]]
  /\ ret' = FsChange("write", p, p)
  /\ UNCHANGED <<clock, files, items, issues, changes, sessions, entries, scan, batch, plan>>

FsRename(p, q) ==
  /\ Idle
  /\ p # q /\ fs[p] # NoFile /\ fs[q] = NoFile
  /\ fsclock' = fsclock + 1
  /\ fs' = [fs EXCEPT ![q] = fs[p], ![p] = NoFile]
  /\ ret' = FsChange("rename", p, q)
  /\ UNCHANGED <<clock, files, items, issues, changes, sessions, entries, scan, batch, plan>>

FsDelete(p) ==
  /\ Idle
  /\ fs[p] # NoFile
  /\ fsclock' = fsclock + 1
  /\ fs' = [fs EXCEPT ![p] = NoFile]
  /\ ret' = FsChange("delete", p, p)
  /\ UNCHANGED <<clock, files, items, issues, changes, sessions, entries, scan, batch, plan>>

----------------------------------------------------------------------------
(* Directory scanner: scan_folder_sync *)

ZeroStats == [added |-> 0, updated |-> 0, moved |-> 0, unchanged |-> 0, missing |-> 0]

ScanIdle == [pc |-> "idle"]

(* the files the walk yields: regular files inside root with a supported extension *)
ScanTargets(root) ==
  {p \in DOMAIN fs : fs[p] # NoFile /\ Inside(root, p) /\ dot_ext(p) \in {<<".", "epub">>, <<".", "pdf">>}}

(* title_guess: the file stem with underscores replaced by spaces *)
title_guess(p) == [i \in DOMAIN file_stem(p) |-> IF file_stem(p)[i] = "_" THEN " " ELSE file_stem(p)[i]]

(* SELECT ... FROM files WHERE path = ?1 AND status != 'inactive' *)
ExistingByPath(p) == {r \in FileIds : files[r].path = p /\ files[r].status # "inactive"}

StatusRank(st) == IF st = "active" THEN 0 ELSE IF st = "missing" THEN 1 ELSE 2

(* variant of the lookup by hash that sees only rows with status missing *)
ExistingByHashMissingOnly(h) ==
  {r \in FileIds : files[r].hash = h /\ files[r].status = "missing"}

(* SELECT ... WHERE sha256 = ?1 AND status != 'inactive'
   ORDER BY CASE status ..., updated_at DESC LIMIT 1: the rows that can come first *)
ExistingByHash(h) ==
  LET cand == {r \in FileIds : files[r].hash = h /\ files[r].status # "inactive"}
      Before(a, b) == \/ StatusRank(files[a].status) < StatusRank(files[b].status)
                      \/ /\ StatusRank(files[a].status) = StatusRank(files[b].status)
                         /\ files[a].updated > files[b].updated
  IN {r \in cand : \A o \in cand : ~Before(o, r)}

NewFile(item, p, h, m, now) ==
  [item |-> item, path |-> p, filename |-> file_name(p), extension |-> dot_ext(p),
   size |-> SizeOf(h), hash |-> h, mtime |-> m, status |-> "active", updated |-> now]

ScanEntry(p, action, file) ==
  [session |-> scan.session, path |-> p, action |-> action, file |-> file]

(* what came directly before this scan: a change of the disk, or a scan *)
LastOp ==
  IF ret.op = "fs" THEN ret
  ELSE IF ret.op = "scan" THEN [op |-> "scan", ok |-> ret.ok, root |-> ret.root]
  ELSE [op |-> ret.op]

ScanStartBody(root) ==
  /\ clock' = clock + 1
  /\ sessions' = Append(sessions, [root |-> root, status |-> "running"])
  /\ scan' = [pc |-> "walk", root |-> root, session |-> Len(sessions) + 1,
              now |-> clock + 1, todo |-> ScanTargets(root), seen |-> {},
              hashed |-> {}, stats |-> ZeroStats, pre |-> files, preitems |-> items,
              predisk |-> fs, prev |-> LastOp]
  /\ ret' = [op |-> "scan_running"]
  /\ entries' = <<>>
  /\ UNCHANGED <<fs, fsclock, files, items, issues, changes, batch, plan>>

(* scan_folder called while no other command runs *)
ScanStart(root) == Idle /\ ScanStartBody(root)

(* scan_folder called while an apply batch may be running on its own thread *)
ScanStartConcurrent(root) == scan.pc = "idle" /\ ScanStartBody(root)

(* existing_mtime == modified_at && existing_size == Some(size_bytes) *)
StatMatches(r, p) == files[r].mtime = fs[p].mtime /\ files[r].size = SizeOf(fs[p].hash)

(* the fast path: a record at this path with equal size and modified time *)
ScanUnchanged(p, r) ==
  /\ files' = IF files[r].status = "missing"
              THEN [files EXCEPT ![r] = [@ EXCEPT !.status = "active", !.updated = scan.now]]
              ELSE files
  /\ entries' = Append(entries, ScanEntry(p, "unchanged", r))
  /\ scan' = [scan EXCEPT !.todo = @ \ {p}, !.seen = @ \cup {p},
                          !.stats = [@ EXCEPT !.unchanged = @ + 1]]
  /\ UNCHANGED <<items, issues>>

(* a non-inactive record has this hash and its path still exists *)
ScanDuplicate(p, o) ==
  /\ Len(files) < MaxFiles
  /\ files' = Append(files, NewFile(files[o].item, p, fs[p].hash, fs[p].mtime, scan.now))
  /\ issues' = Append(issues, [item |-> files[o].item, file |-> Len(files) + 1,
                               type |-> "duplicate", resolved |-> FALSE])
  /\ entries' = Append(entries, ScanEntry(p, "added", Len(files) + 1))
  /\ scan' = [scan EXCEPT !.todo = @ \ {p}, !.seen = @ \cup {p}, !.hashed = @ \cup {p},
                          !.stats = [@ EXCEPT !.added = @ + 1]]
  /\ UNCHANGED items

(* variant of the moved branch that leaves the moved counter alone *)
ScanMovedUncounted(p, o) ==
  /\ files' = [files EXCEPT ![o] = [@ EXCEPT !.path = p, !.filename = file_name(p),
                                            !.extension = dot_ext(p),
                                            !.size = SizeOf(fs[p].hash),
                                            !.mtime = fs[p].mtime,
                                            !.updated = scan.now, !.status = "active"]]
  /\ entries' = Append(entries, ScanEntry(p, "moved", o))
  /\ scan' = [scan EXCEPT !.todo = @ \ {p}, !.seen = @ \cup {p}, !.hashed = @ \cup {p}]
  /\ UNCHANGED <<items, issues>>

(* a non-inactive record has this hash and its path is gone *)
ScanMoved(p, o) ==
  /\ files' = [files EXCEPT ![o] = [@ EXCEPT !.path = p, !.filename = file_name(p),
                                            !.extension = dot_ext(p),
                                            !.size = SizeOf(fs[p].hash),
                                            !.mtime = fs[p].mtime,
                                            !.updated = scan.now, !.status = "active"]]
  /\ entries' = Append(entries, ScanEntry(p, "moved", o))
  /\ scan' = [scan EXCEPT !.todo = @ \ {p}, !.seen = @ \cup {p}, !.hashed = @ \cup {p},
                          !.stats = [@ EXCEPT !.moved = @ + 1]]
  /\ UNCHANGED <<items, issues>>

(* variant of the updated branch that refreshes size and time but not the hash *)
ScanUpdatedKeepHash(p, r) ==
  /\ files' = [files EXCEPT ![r] = [@ EXCEPT !.filename = file_name(p),
                                            !.extension = dot_ext(p),
                                            !.size = SizeOf(fs[p].hash),
                                            !.mtime = fs[p].mtime,
                                            !.updated = scan.now, !.status = "active"]]
  /\ entries' = Append(entries, ScanEntry(p, "updated", r))
  /\ scan' = [scan EXCEPT !.todo = @ \ {p}, !.seen = @ \cup {p}, !.hashed = @ \cup {p},
                          !.stats = [@ EXCEPT !.updated = @ + 1]]
  /\ UNCHANGED <<items, issues>>

(* no record has this hash, a record exists at this path: content changed in place *)
ScanUpdated(p, r) ==
  /\ files' = [files EXCEPT ![r] = [@ EXCEPT !.filename = file_name(p),
                                            !.extension = dot_ext(p),
                                            !.size = SizeOf(fs[p].hash),
                                            !.mtime = fs[p].mtime, !.hash = fs[p].hash,
                                            !.updated = scan.now, !.status = "active"]]
  /\ entries' = Append(entries, ScanEntry(p, "updated", r))
  /\ scan' = [scan EXCEPT !.todo = @ \ {p}, !.seen = @ \cup {p}, !.hashed = @ \cup {p},
                          !.stats = [@ EXCEPT !.updated = @ + 1]]
  /\ UNCHANGED <<items, issues>>

(* a new item and a new record *)
ScanAdded(p) ==
  /\ Len(files) < MaxFiles
  /\ items' = Append(items, [title |-> title_guess(p)])
  /\ files' = Append(files, NewFile(Len(items) + 1, p, fs[p].hash, fs[p].mtime, scan.now))
  /\ entries' = Append(entries, ScanEntry(p, "added", Len(files) + 1))
  /\ scan' = [scan EXCEPT !.todo = @ \ {p}, !.seen = @ \cup {p}, !.hashed = @ \cup {p},
                          !.stats = [@ EXCEPT !.added = @ + 1]]
  /\ UNCHANGED issues

(* one iteration of the walk loop; query_row takes the first row the store returns *)
ScanVisit(p) ==
  /\ scan.pc = "walk" /\ p \in scan.todo /\ Exists(p)
  /\ \E r \in (IF ExistingByPath(p) = {} THEN {NoId} ELSE ExistingByPath(p)) :
       IF r # NoId /\ StatMatches(r, p)
       THEN ScanUnchanged(p, r)
       ELSE \E o \in (IF ExistingByHash(fs[p].hash) = {} THEN {NoId}
                      ELSE ExistingByHash(fs[p].hash)) :
              IF o # NoId
              THEN IF Exists(files[o].path) THEN ScanDuplicate(p, o) ELSE ScanMoved(p, o)
              ELSE IF r # NoId THEN ScanUpdated(p, r) ELSE ScanAdded(p)
  /\ ret' = [op |-> "scan_running"]
  /\ UNCHANGED <<fs, fsclock, clock, changes, sessions, batch, plan>>

(* entry.metadata() or hash_file fails: the function returns Err at once *)
ScanVisitErr(p) ==
  /\ scan.pc = "walk" /\ p \in scan.todo
  /\ scan' = ScanIdle
  /\ ret' = [op |-> "scan", ok |-> FALSE, root |-> scan.root, session |-> scan.session,
             path |-> p]
  /\ UNCHANGED <<fs, fsclock, clock, files, items, issues, changes, sessions, entries, batch, plan>>

(* variant of the rows of the missing pass that does not look at seen_paths *)
MissingCandidatesUnseen(root, seen) ==
  {r \in FileIds : files[r].status = "active" /\ LikePrefix(root, files[r].path)}

(* SELECT id, path FROM files WHERE status = 'active' AND path LIKE root% *)
MissingCandidates(root, seen) ==
  {r \in FileIds : files[r].status = "active" /\ LikePrefix(root, files[r].path)
                   /\ files[r].path \notin seen}

(* the missing pass and the end of the session *)
ScanFinish ==
  /\ scan.pc = "walk" /\ scan.todo = {}
  /\ LET miss == MissingCandidates(scan.root, scan.seen)
         stats == [scan.stats EXCEPT !.missing = @ + Cardinality(miss)]
     IN /\ files' = [r \in FileIds |->
                       IF r \in miss
                       THEN [files[r] EXCEPT !.status = "missing", !.updated = scan.now]
                       ELSE files[r]]
        /\ entries' = entries \o [i \in 1..Cardinality(miss) |->
                                    ScanEntry(files[SeqOfSet(miss)[i]].path, "missing",
                                              SeqOfSet(miss)[i])]
        /\ ret' = [op |-> "scan", ok |-> TRUE, root |-> scan.root, session |-> scan.session,
                   stats |-> stats, hashed |-> scan.hashed, seen |-> scan.seen,
                   pre |-> scan.pre, preitems |-> scan.preitems, prev |-> scan.prev]
  /\ sessions' = [sessions EXCEPT ![scan.session] = [@ EXCEPT !.status = "success"]]
  /\ scan' = ScanIdle
  /\ UNCHANGED <<fs, fsclock, clock, items, issues, changes, batch, plan>>

----------------------------------------------------------------------------
(* Pending change queue.  A row whose status is "deleted" has been removed  *)
(* from the table (DELETE FROM pending_changes); its id is never reused.   *)

NoPayload == "null"
NoTime == 0
NoError == "null"

NewChange(file, type, from, to, payload, now) ==
  [file |-> file, type |-> type, from |-> from, to |-> to, payload |-> payload,
   status |-> "pending", created |-> now, applied_at |-> NoTime, error |-> NoError]

(* variant of the supersession delete that names the type rename *)
DeletePendingRename(ch, file) ==
  [c \in DOMAIN ch |->
     IF ch[c].file = file /\ ch[c].type = "rename" /\ ch[c].status = "pending"
     THEN [ch[c] EXCEPT !.status = "deleted"]
     ELSE ch[c]]

(* DELETE FROM pending_changes WHERE file_id = ?1 AND type = 'epub_meta' AND status = 'pending' *)
DeletePendingEpub(ch, file) ==
  [c \in DOMAIN ch |->
     IF ch[c].file = file /\ ch[c].type = "epub_meta" /\ ch[c].status = "pending"
     THEN [ch[c] EXCEPT !.status = "deleted"]
     ELSE ch[c]]

(* SELECT id, path FROM files WHERE item_id = ?1 AND status = 'active'
   AND LOWER(extension) IN ('epub', '.epub') *)
EpubFilesOfItem(item) ==
  {r \in FileIds : /\ files[r].item = item /\ files[r].status = "active"
                   /\ to_lowercase(files[r].extension) \in {<<"epub">>, <<".", "epub">>}}

RECURSIVE QueueEpubRows(_, _, _, _)
QueueEpubRows(ch, rows, payload, now) ==
  IF rows = <<>> THEN ch
  ELSE QueueEpubRows(
         Append(DeletePendingEpub(ch, Head(rows)),
                NewChange(Head(rows), "epub_meta", files[Head(rows)].path, NoPath, payload, now)),
         Tail(rows), payload, now)

(* queue_epub_changes_for_item; payload "empty" is a change set with no field set *)
queue_epub_changes_for_item(item, payload) ==
  /\ Idle
  /\ clock' = clock + 1
  /\ IF payload = "empty"
     THEN /\ changes' = changes
          /\ ret' = [op |-> "queue_epub", created |-> 0]
     ELSE /\ changes' = QueueEpubRows(changes, SeqOfSet(EpubFilesOfItem(item)), payload, clock + 1)
          /\ ret' = [op |-> "queue_epub", created |-> Cardinality(EpubFilesOfItem(item))]
  /\ UNCHANGED <<fs, fsclock, files, items, issues, sessions, entries, scan, batch, plan>>

(* remove_pending_changes: an empty id list removes every pending change *)
remove_pending_changes(ids) ==
  /\ Idle
  /\ clock' = clock + 1
  /\ changes' = [c \in ChangeIds |->
                   IF changes[c].status = "pending" /\ (ids = {} \/ c \in ids)
                   THEN [changes[c] EXCEPT !.status = "deleted"]
                   ELSE changes[c]]
  /\ ret' = [op |-> "remove_pending",
             removed |-> Cardinality({c \in ChangeIds : changes[c].status = "pending"
                                                        /\ (ids = {} \/ c \in ids)})]
  /\ UNCHANGED <<fs, fsclock, files, items, issues, sessions, entries, scan, batch, plan>>

----------------------------------------------------------------------------
(* Duplicate resolution and missing-file commands *)

RECURSIVE QueueDeleteRows(_, _, _)
QueueDeleteRows(ch, rows, now) ==
  IF rows = <<>> THEN ch
  ELSE QueueDeleteRows(
         Append(ch, NewChange(Head(rows), "delete", files[Head(rows)].path, NoPath, NoPayload, now)),
         Tail(rows), now)

(* resolve_duplicate_group(group_id, keep_file_id): the group id is the content hash *)
resolve_duplicate_group(group, keep) ==
  /\ Idle
  /\ clock' = clock + 1
  /\ IF keep \in FileIds /\ files[keep].hash = group /\ files[keep].status = "active"
     THEN LET others == {r \in FileIds : files[r].hash = group /\ r # keep}
              active == {r \in others : files[r].status = "active"}
          IN /\ changes' = QueueDeleteRows(changes, SeqOfSet(active), clock + 1)
             /\ files' = [r \in FileIds |->
                            IF r \in others
                            THEN [files[r] EXCEPT !.status = "inactive", !.updated = clock + 1]
                            ELSE files[r]]
             /\ issues' = [i \in DOMAIN issues |->
                             IF issues[i].type = "duplicate" /\ issues[i].file \in others
                             THEN [issues[i] EXCEPT !.resolved = TRUE]
                             ELSE issues[i]]
             /\ ret' = [op |-> "resolve_duplicate_group", ok |-> TRUE]
     ELSE /\ UNCHANGED <<changes, files, issues>>
          /\ ret' = [op |-> "resolve_duplicate_group", ok |-> FALSE]
  /\ UNCHANGED <<fs, fsclock, items, sessions, entries, scan, batch, plan>>

(* relink_missing_file(file_id, new_path) *)
relink_missing_file(file, new_path) ==
  /\ Idle
  /\ clock' = clock + 1
  /\ IF \E r \in FileIds : files[r].path = new_path /\ r # file
     THEN /\ files' = files
          /\ ret' = [op |-> "relink", ok |-> FALSE]
     ELSE IF ~Exists(new_path)
     THEN /\ files' = files
          /\ ret' = [op |-> "relink", ok |-> FALSE]
     ELSE /\ files' = [r \in FileIds |->
                         IF r = file
                         THEN [files[r] EXCEPT !.path = new_path,
                                               !.filename = file_name(new_path),
                                               !.extension = dot_ext_opt(new_path),
                                               !.size = SizeOf(fs[new_path].hash),
                                               !.mtime = fs[new_path].mtime,
                                               !.updated = clock + 1,
                                               !.status = "active"]
                         ELSE files[r]]
          /\ ret' = [op |-> "relink", ok |-> TRUE]
  /\ UNCHANGED <<fs, fsclock, items, issues, changes, sessions, entries, scan, batch, plan>>

(* remove_missing_file(file_id) *)
remove_missing_file(file) ==
  /\ Idle
  /\ files' = [r \in FileIds |->
                 IF r = file THEN [files[r] EXCEPT !.status = "inactive", !.updated = clock + 1]
                 ELSE files[r]]
  /\ clock' = clock + 1
  /\ ret' = [op |-> "remove_missing"]
  /\ UNCHANGED <<fs, fsclock, items, issues, changes, sessions, entries, scan, batch, plan>>

----------------------------------------------------------------------------
(* Change applier: apply_pending_changes_sync *)

ZeroOpStats == [total |-> 0, processed |-> 0, skipped |-> 0, errors |-> 0]

BatchIdle == [pc |-> "idle"]

PendingIds == {c \in ChangeIds : changes[c].status = "pending"}

(* variant of the selection of all pending changes without ORDER BY *)
PendingAnyOrder ==
  {q \in [1..Cardinality({c \in DOMAIN changes : changes[c].status = "pending"})
            -> {c \in DOMAIN changes : changes[c].status = "pending"}] :
     \A i, j \in DOMAIN q : i # j => q[i] # q[j]}

(* SELECT ... WHERE status = 'pending' ORDER BY created_at ASC: every order the
   store may return, rows with equal created_at in any order *)
PendingOldestFirst ==
  {q \in [1..Cardinality(PendingIds) -> PendingIds] :
     /\ \A i, j \in DOMAIN q : i # j => q[i] # q[j]
     /\ \A i, j \in DOMAIN q : i < j => changes[q[i]].created <= changes[q[j]].created}

(* SELECT ... WHERE status = 'pending' AND id = ?1, once for every id of the list *)
RECURSIVE SelectByIds(_)
SelectByIds(ids) ==
  IF ids = <<>> THEN <<>>
  ELSE (IF Head(ids) \in PendingIds THEN <<Head(ids)>> ELSE <<>>) \o SelectByIds(Tail(ids))

(* the PendingChange values read into the Vec: copies of the rows *)
Snapshot(q) == [i \in DOMAIN q |-> [id |-> q[i], file |-> changes[q[i]].file,
                                    type |-> changes[q[i]].type, from |-> changes[q[i]].from,
                                    to |-> changes[q[i]].to, payload |-> changes[q[i]].payload]]

(* app.emit("change-progress", OperationProgress { item_id, status, current, total }) *)
OperationProgress(id, status, current, total) ==
  [event |-> "change-progress", item_id |-> id, status |-> status,
   current |-> current, total |-> total]

ApplyStartBody(ids) ==
  /\ clock' = clock + 1
  /\ \E q \in (IF ids = <<>> THEN PendingOldestFirst ELSE {SelectByIds(ids)}) :
       batch' = [pc |-> "run", ids |-> ids, queue |-> Snapshot(q), index |-> 1, now |-> clock + 1,
                 stats |-> [ZeroOpStats EXCEPT !.total = Len(q)], events |-> <<>>]
  /\ ret' = [op |-> "apply_running"]
  /\ UNCHANGED <<fs, fsclock, files, items, issues, changes, sessions, entries, scan, plan>>

(* apply_pending_changes called while no other command runs *)
ApplyStart(ids) == Idle /\ ApplyStartBody(ids)

(* apply_pending_changes called while a scan may be running on its own thread *)
ApplyStartConcurrent(ids) == batch.pc = "idle" /\ ApplyStartBody(ids)

(* UPDATE files SET ... WHERE id = ?: no row, no change *)
UpdateFile(r, rec) == [k \in FileIds |-> IF k = r THEN rec ELSE files[k]]

(* the disk after writing v at path p *)
FsPut(f, p, v) == [q \in DOMAIN f \cup {p} |-> IF q = p THEN v ELSE f[q]]

(* std::fs::rename: the file at from replaces whatever is at to *)
FsMove(f, from, to) == IF from = to THEN f ELSE FsPut(FsPut(f, to, f[from]), from, NoFile)

Effect(ok, err, f, fl, iss, fc) ==
  [ok |-> ok, err |-> err, fs |-> f, files |-> fl, issues |-> iss, fsclock |-> fc]

(* apply_rename_change; io is the outcome of create_dir_all and fs::rename when
   the source exists *)
apply_rename_change(c, io, now) ==
  LET from == IF c.from # NoPath THEN c.from
              ELSE IF c.file \in FileIds THEN files[c.file].path ELSE NoPath
  IN IF from = NoPath THEN Effect(FALSE, "Query returned no rows", fs, files, issues, fsclock)
     ELSE IF c.to = NoPath THEN Effect(FALSE, "Missing target path", fs, files, issues, fsclock)
     ELSE IF parent(c.to) = None THEN Effect(FALSE, "Invalid target path", fs, files, issues, fsclock)
     ELSE IF ~Exists(from) THEN Effect(FALSE, "No such file", fs, files, issues, fsclock)
     ELSE IF io # "ok" THEN Effect(FALSE, "io error", fs, files, issues, fsclock)
     ELSE Effect(TRUE, NoError, FsMove(fs, from, c.to),
                 IF c.file \in FileIds
                 THEN UpdateFile(c.file, [files[c.file] EXCEPT !.path = c.to,
                                                               !.filename = file_name(c.to),
                                                               !.extension = extension(c.to),
                                                               !.updated = now])
                 ELSE files,
                 issues, fsclock)

(* apply_epub_change: update_epub_metadata rewrites the file in place; h is the
   hash of the rewritten bytes *)
apply_epub_change(c, io, h) ==
  IF c.from = NoPath THEN Effect(FALSE, "Missing EPUB path", fs, files, issues, fsclock)
  ELSE IF c.payload = NoPayload THEN Effect(FALSE, "Missing changes", fs, files, issues, fsclock)
  ELSE IF ~Exists(c.from) THEN Effect(FALSE, "No such file", fs, files, issues, fsclock)
  ELSE IF io # "ok" THEN Effect(FALSE, "io error", fs, files, issues, fsclock)
  ELSE Effect(TRUE, NoError, FsPut(fs, c.from, [hash |-> h, mtime |-> fsclock + 1]),
              files, issues, fsclock + 1)

(* variant of apply_delete_change that leaves the record as it is when the file
   could not be removed *)
apply_delete_change_keep(c, io, now) ==
  IF c.from = NoPath THEN Effect(FALSE, "Missing file path", fs, files, issues, fsclock)
  ELSE IF Exists(c.from) /\ io # "ok"
  THEN Effect(FALSE, "Could not delete file", fs, files, issues, fsclock)
  ELSE Effect(TRUE, NoError,
              IF Exists(c.from) THEN FsPut(fs, c.from, NoFile) ELSE fs,
              IF c.file \in FileIds
              THEN UpdateFile(c.file, [files[c.file] EXCEPT !.status = "inactive", !.updated = now])
              ELSE files,
              [i \in DOMAIN issues |->
                 IF issues[i].file = c.file /\ issues[i].type = "duplicate"
                 THEN [issues[i] EXCEPT !.resolved = TRUE] ELSE issues[i]],
              fsclock)

(* variant of apply_delete_change for which a file that is not there is an error *)
apply_delete_change_strict(c, io, now) ==
  IF c.from = NoPath THEN Effect(FALSE, "Missing file path", fs, files, issues, fsclock)
  ELSE IF ~Exists(c.from) \/ io # "ok"
  THEN Effect(FALSE, "Could not delete file", fs,
              IF c.file \in FileIds
              THEN UpdateFile(c.file, [files[c.file] EXCEPT !.status = "active", !.updated = now])
              ELSE files,
              issues, fsclock)
  ELSE Effect(TRUE, NoError, FsPut(fs, c.from, NoFile),
              IF c.file \in FileIds
              THEN UpdateFile(c.file, [files[c.file] EXCEPT !.status = "inactive", !.updated = now])
              ELSE files,
              [i \in DOMAIN issues |->
                 IF issues[i].file = c.file /\ issues[i].type = "duplicate"
                 THEN [issues[i] EXCEPT !.resolved = TRUE] ELSE issues[i]],
              fsclock)

(* apply_delete_change: NotFound counts as removed; any other remove_file error
   sets the record back to active and fails *)
apply_delete_change(c, io, now) ==
  IF c.from = NoPath THEN Effect(FALSE, "Missing file path", fs, files, issues, fsclock)
  ELSE IF Exists(c.from) /\ io # "ok"
  THEN Effect(FALSE, "Could not delete file", fs,
              IF c.file \in FileIds
              THEN UpdateFile(c.file, [files[c.file] EXCEPT !.status = "active", !.updated = now])
              ELSE files,
              issues, fsclock)
  ELSE Effect(TRUE, NoError,
              IF Exists(c.from) THEN FsPut(fs, c.from, NoFile) ELSE fs,
              IF c.file \in FileIds
              THEN UpdateFile(c.file, [files[c.file] EXCEPT !.status = "inactive", !.updated = now])
              ELSE files,
              [i \in DOMAIN issues |->
                 IF issues[i].file = c.file /\ issues[i].type = "duplicate"
                 THEN [issues[i] EXCEPT !.resolved = TRUE] ELSE issues[i]],
              fsclock)

(* variant of the status update that leaves an earlier error message in place *)
MarkChangeKeepError(ch, id, res, now) ==
  [k \in DOMAIN ch |->
     IF k = id /\ ch[k].status # "deleted"
     THEN IF res.ok
          THEN [ch[k] EXCEPT !.status = "applied", !.applied_at = now]
          ELSE [ch[k] EXCEPT !.status = "error", !.error = res.err]
     ELSE ch[k]]

(* the status written for the change after it ran *)
MarkChange(ch, id, res, now) ==
  [k \in DOMAIN ch |->
     IF k = id /\ ch[k].status # "deleted"
     THEN IF res.ok
          THEN [ch[k] EXCEPT !.status = "applied", !.applied_at = now, !.error = NoError]
          ELSE [ch[k] EXCEPT !.status = "error", !.error = res.err]
     ELSE ch[k]]

(* one iteration of the loop over the selected changes *)
ApplyStep(io, h) ==
  /\ batch.pc = "run" /\ batch.index <= Len(batch.queue)
  /\ LET c == batch.queue[batch.index]
         res == IF c.type = "rename" THEN apply_rename_change(c, io, batch.now)
                ELSE IF c.type = "epub_meta" THEN apply_epub_change(c, io, h)
                ELSE IF c.type = "delete" THEN apply_delete_change(c, io, batch.now)
                ELSE Effect(FALSE, "Unsupported change type", fs, files, issues, fsclock)
     IN /\ fs' = res.fs
        /\ files' = res.files
        /\ issues' = res.issues
        /\ fsclock' = res.fsclock
        /\ changes' = MarkChange(changes, c.id, res, batch.now)
        /\ batch' = [batch EXCEPT !.index = @ + 1,
                                  !.stats = IF res.ok THEN [@ EXCEPT !.processed = @ + 1]
                                            ELSE [@ EXCEPT !.errors = @ + 1],
                                  !.events = @ \o
                                    <<OperationProgress(c.id, "processing", batch.index,
                                                        batch.stats.total),
                                      OperationProgress(c.id, IF res.ok THEN "done" ELSE "error",
                                                        batch.index, batch.stats.total)>>]
  /\ ret' = [op |-> "apply_running"]
  /\ UNCHANGED <<clock, items, sessions, entries, scan, plan>>

(* one iteration in which the UPDATE of the change's status fails: the handler
   has run, the error is returned with ?, the loop and the function end there
   and no change-complete is emitted *)
ApplyStoreErr(io, h) ==
  /\ batch.pc = "run" /\ batch.index <= Len(batch.queue)
  /\ LET c == batch.queue[batch.index]
         res == IF c.type = "rename" THEN apply_rename_change(c, io, batch.now)
                ELSE IF c.type = "epub_meta" THEN apply_epub_change(c, io, h)
                ELSE IF c.type = "delete" THEN apply_delete_change(c, io, batch.now)
                ELSE Effect(FALSE, "Unsupported change type", fs, files, issues, fsclock)
     IN /\ fs' = res.fs
        /\ files' = res.files
        /\ issues' = res.issues
        /\ fsclock' = res.fsclock
        /\ ret' = [op |-> "apply_failed", stats |-> batch.stats, queue |-> batch.queue,
                   events |-> Append(batch.events,
                                     OperationProgress(c.id, "processing", batch.index,
                                                       batch.stats.total))]
  /\ batch' = BatchIdle
  /\ UNCHANGED <<clock, changes, items, sessions, entries, scan, plan>>

(* the loop is over: change-complete is emitted with the batch summary *)
ApplyFinish ==
  /\ batch.pc = "run" /\ batch.index > Len(batch.queue)
  /\ ret' = [op |-> "apply", stats |-> batch.stats, queue |-> batch.queue,
             events |-> Append(batch.events,
                               [event |-> "change-complete", stats |-> batch.stats])]
  /\ batch' = BatchIdle
  /\ UNCHANGED <<fs, fsclock, clock, files, items, issues, changes, sessions, entries, scan, plan>>

----------------------------------------------------------------------------
(* Organize planner: plan_organize, render_template, sanitize, resolve_collision *)

IsWs(t) == t \in {" ", "\t"}
IsDigit(t) == t \in {"0", "1", "2", "3", "4", "5", "6", "7", "8", "9"}

RECURSIVE Decimal(_)
Decimal(n) ==
  IF n < 10 THEN <<(<<"0", "1", "2", "3", "4", "5", "6", "7", "8", "9">>)[n + 1]>>
  ELSE Decimal(n \div 10) \o Decimal(n % 10)

RECURSIVE JoinWords(_, _, _)
JoinWords(s, started, pend) ==
  IF s = <<>> THEN <<>>
  ELSE IF IsWs(Head(s)) THEN JoinWords(Tail(s), started, started)
  ELSE (IF pend THEN <<" ">> ELSE <<>>) \o <<Head(s)>> \o JoinWords(Tail(s), TRUE, FALSE)

(* sanitize: illegal characters become '-', runs of whitespace one space, trimmed *)
sanitize(value) ==
  JoinWords([i \in DOMAIN value |->
               IF value[i] \in {"\\", "/", ":", "*", "?", "\"", "<", ">", "|"}
               THEN "-" ELSE value[i]],
            FALSE, FALSE)

RECURSIVE trim_start_dots(_)
trim_start_dots(s) == IF s # <<>> /\ Head(s) = "." THEN trim_start_dots(Tail(s)) ELSE s

RECURSIVE ReplaceTok(_, _, _)
ReplaceTok(s, tok, by) ==
  IF s = <<>> THEN <<>>
  ELSE (IF Head(s) = tok THEN by ELSE <<Head(s)>>) \o ReplaceTok(Tail(s), tok, by)

(* render_template; author, year and isbn13 come from tables the scanner does not
   fill from a file name: no author row gives "", no year or ISBN gives Unknown *)
render_template(template, author, title, ext) ==
  ReplaceTok(ReplaceTok(ReplaceTok(ReplaceTok(ReplaceTok(template,
    "{Author}", sanitize(author)),
    "{Title}", sanitize(title)),
    "{Year}", <<"Unknown">>),
    "{ISBN13}", <<"Unknown">>),
    "{ext}", trim_start_dots(ext))

(* variant of the collision-suffix match that expects "(" digits ")" *)
collision_base_parens(stem) ==
  LET n == Len(stem)
      k == LastIndexOf(stem, "(")
  IN IF /\ n >= 4 /\ stem[n] = ")" /\ k >= 2 /\ k + 1 <= n - 1
        /\ \A i \in (k + 1)..(n - 1) : IsDigit(stem[i])
        /\ IsWs(stem[k - 1])
     THEN SubSeq(stem, 1, k - 2)
     ELSE None

(* the collision-suffix regex of plan_organize on a stem (anything, one whitespace,
   "[", digits, "]" at the end): its first capture, or None when it does not match *)
collision_base(stem) ==
  LET n == Len(stem)
      k == LastIndexOf(stem, "[")
  IN IF /\ n >= 4 /\ stem[n] = "]" /\ k >= 2 /\ k + 1 <= n - 1
        /\ \A i \in (k + 1)..(n - 1) : IsDigit(stem[i])
        /\ IsWs(stem[k - 1])
     THEN SubSeq(stem, 1, k - 2)
     ELSE None

(* variant of resolve_collision that tries index 1 only *)
resolve_collision_once(library_root, relative) ==
  LET base == join(library_root, relative)
      stem == IF file_stem(base) = <<>> THEN <<"file">> ELSE file_stem(base)
      ext == extension(base)
  IN IF ~Exists(base) THEN base
     ELSE with_file_name(base, stem \o <<" ", "[", "1", "]">>
                               \o (IF ext = <<>> THEN <<>> ELSE <<".">> \o ext))

(* resolve_collision: the rendered path, or the first " [index]" variant that is free *)
resolve_collision(library_root, relative) ==
  LET base == join(library_root, relative)
      stem == IF file_stem(base) = <<>> THEN <<"file">> ELSE file_stem(base)
      ext == extension(base)
      candidate(i) == with_file_name(base,
                        stem \o <<" ", "[">> \o Decimal(i) \o <<"]">>
                             \o (IF ext = <<>> THEN <<>> ELSE <<".">> \o ext))
      limit == Cardinality({q \in DOMAIN fs : fs[q] # NoFile}) + 1
  IN IF ~Exists(base) THEN base
     ELSE candidate(CHOOSE i \in 1..limit :
                      ~Exists(candidate(i)) /\ \A j \in 1..(i - 1) : Exists(candidate(j)))

(* std::fs::canonicalize(p).ok(): the path itself when it exists (no links) *)
canonicalize(p) == IF Exists(p) THEN p ELSE None

(* the tolerant equivalence of source and proposed target *)
same_path(source, proposed) ==
  \/ source = proposed
  \/ canonicalize(source) # None /\ canonicalize(source) = canonicalize(proposed)
  \/ /\ parent(proposed) # None /\ parent(source) # None
     /\ parent(proposed) = parent(source)
     /\ file_stem(proposed) # <<>>
     /\ \/ file_stem(source) = file_stem(proposed)
        \/ collision_base(file_stem(source)) = file_stem(proposed)

same_under_root(source, library_root, relative) ==
  LET rel == strip_prefix(source, library_root)
  IN /\ rel # None
     /\ parent(rel) = parent(relative)
     /\ \/ file_stem(rel) = file_stem(relative)
        \/ collision_base(file_stem(rel)) = file_stem(relative)

(* one OrganizeEntry, for the active file r *)
OrganizeEntry(r, mode, library_root, template) ==
  LET relative == render_template(template, <<>>, items[files[r].item].title,
                                  files[r].extension)
      proposed == join(library_root, relative)
      skip == same_path(files[r].path, proposed)
              \/ same_under_root(files[r].path, library_root, relative)
  IN [file |-> r, source |-> files[r].path,
      target |-> IF skip THEN proposed ELSE resolve_collision(library_root, relative),
      action |-> IF skip \/ mode = "reference" THEN "skip"
                 ELSE IF mode = "copy" THEN "copy" ELSE "move"]

(* variant of the rows of plan_organize without the filter on status *)
PlanEntriesAllFiles(mode, library_root, template) ==
  LET rows == SeqOfSet(DOMAIN files)
  IN [i \in DOMAIN rows |-> OrganizeEntry(rows[i], mode, library_root, template)]

(* plan_organize: one entry per active file, in the order of the rows *)
PlanEntries(mode, library_root, template) ==
  LET rows == SeqOfSet({r \in FileIds : files[r].status = "active"})
  IN [i \in DOMAIN rows |-> OrganizeEntry(rows[i], mode, library_root, template)]

(* variant of plan_organize that reserves every target by creating it on disk *)
plan_organize_reserving(mode, library_root, template) ==
  LET es == PlanEntries(mode, library_root, template)
      taken == {es[i].target : i \in {j \in DOMAIN es : es[j].action # "skip"}}
  IN /\ Idle
     /\ plan' = [mode |-> mode, library_root |-> library_root, template |-> template,
                 entries |-> es]
     /\ fs' = [p \in DOMAIN fs \cup taken |->
                 IF p \in taken THEN [hash |-> "h1", mtime |-> fsclock] ELSE fs[p]]
     /\ clock' = clock + 1
     /\ ret' = [op |-> "plan_organize"]
     /\ UNCHANGED <<fsclock, files, items, issues, changes, sessions, entries, scan, batch>>

(* plan_organize; the plan is returned to the caller, who keeps it *)
plan_organize(mode, library_root, template) ==
  /\ Idle
  /\ plan' = [mode |-> mode, library_root |-> library_root, template |-> template,
              entries |-> PlanEntries(mode, library_root, template)]
  /\ clock' = clock + 1
  /\ ret' = [op |-> "plan_organize"]
  /\ UNCHANGED <<fs, fsclock, files, items, issues, changes, sessions, entries, scan, batch>>

(* variant of the rows queued from a plan that queues skip entries as well *)
RECURSIVE QueueRenameRowsAll(_, _, _)
QueueRenameRowsAll(ch, es, now) ==
  IF es = <<>> THEN ch
  ELSE QueueRenameRowsAll(
         Append(ch, NewChange(Head(es).file, "rename", Head(es).source, Head(es).target,
                              NoPayload, now)),
         Tail(es), now)

RECURSIVE QueueRenameRows(_, _, _)
QueueRenameRows(ch, es, now) ==
  IF es = <<>> THEN ch
  ELSE QueueRenameRows(
         IF Head(es).action = "skip" THEN ch
         ELSE Append(ch, NewChange(Head(es).file, "rename", Head(es).source, Head(es).target,
                                   NoPayload, now)),
         Tail(es), now)

(* generate_pending_changes_from_organize(plan), with the plan the caller holds *)
generate_pending_changes_from_organize ==
  /\ Idle
  /\ clock' = clock + 1
  /\ changes' = QueueRenameRows(changes, plan.entries, clock + 1)
  /\ ret' = [op |-> "generate_pending", created |-> Len(changes') - Len(changes)]
  /\ UNCHANGED <<fs, fsclock, files, items, issues, sessions, entries, scan, batch, plan>>

----------------------------------------------------------------------------
(* apply_organize: executes the entries of a plan directly *)

ExistsIn(f, p) == p \in DOMAIN f /\ f[p] # NoFile

UpdateFileIn(fl, r, rec) == [k \in DOMAIN fl |-> IF k = r THEN rec ELSE fl[k]]

(* the body of the loop for one entry; st is the disk, the files table, the write
   clock and the counters so far; io is the outcome of create_dir_all and of the
   copy or move when the source exists *)
OrganizeOne(st, e, io, now) ==
  IF e.action = "skip"
  THEN [st EXCEPT !.stats = [@ EXCEPT !.skipped = @ + 1]]
  ELSE IF ~ExistsIn(st.fs, e.source)
  THEN IF ExistsIn(st.fs, e.target)
       THEN [st EXCEPT !.files = UpdateFileIn(@, e.file,
                                   [@[e.file] EXCEPT !.path = e.target,
                                                     !.filename = file_name(e.target),
                                                     !.extension = dot_ext_opt(e.target),
                                                     !.updated = now, !.status = "active"]),
                       !.stats = [@ EXCEPT !.processed = @ + 1]]
       ELSE [st EXCEPT !.files = UpdateFileIn(@, e.file,
                                   [@[e.file] EXCEPT !.status = "missing", !.updated = now]),
                       !.stats = [@ EXCEPT !.errors = @ + 1]]
  ELSE IF io # "ok"
  THEN [st EXCEPT !.stats = [@ EXCEPT !.errors = @ + 1]]
  ELSE IF e.action = "copy"
  THEN [st EXCEPT !.fs = FsPut(@, e.target, [hash |-> st.fs[e.source].hash,
                                             mtime |-> st.fsclock + 1]),
                  !.fsclock = @ + 1,
                  !.files = Append(@, [item |-> @[e.file].item, path |-> e.target,
                                       filename |-> file_name(e.target),
                                       extension |-> dot_ext_opt(e.target),
                                       size |-> @[e.file].size, hash |-> @[e.file].hash,
                                       mtime |-> @[e.file].mtime, status |-> "active",
                                       updated |-> now]),
                  !.stats = [@ EXCEPT !.processed = @ + 1]]
  ELSE [st EXCEPT !.fs = FsMove(@, e.source, e.target),
                  !.files = UpdateFileIn(@, e.file,
                              [@[e.file] EXCEPT !.path = e.target,
                                                !.filename = file_name(e.target),
                                                !.extension = dot_ext_opt(e.target),
                                                !.updated = now, !.status = "active"]),
                  !.stats = [@ EXCEPT !.processed = @ + 1]]

RECURSIVE OrganizeLoop(_, _, _, _)
OrganizeLoop(st, es, ios, now) ==
  IF es = <<>> THEN st
  ELSE OrganizeLoop(OrganizeOne(st, Head(es), Head(ios), now), Tail(es), Tail(ios), now)

(* apply_organize(plan), with the plan the caller holds; ios is the I/O outcome
   met at each entry *)
apply_organize(ios) ==
  /\ Idle
  /\ Len(ios) = Len(plan.entries)
  /\ clock' = clock + 1
  /\ LET total == Cardinality({i \in DOMAIN plan.entries : plan.entries[i].action # "skip"})
         st == OrganizeLoop([fs |-> fs, files |-> files, fsclock |-> fsclock,
                             stats |-> [ZeroOpStats EXCEPT !.total = total]],
                            plan.entries, ios, clock + 1)
     IN /\ fs' = st.fs
        /\ files' = st.files
        /\ fsclock' = st.fsclock
        /\ ret' = [op |-> "apply_organize", stats |-> st.stats]
  /\ UNCHANGED <<items, issues, changes, sessions, entries, scan, batch, plan>>

----------------------------------------------------------------------------
(* Initial state: an empty store and an empty disk *)

NoPlan == [mode |-> "none", library_root |-> <<>>, entries |-> <<>>]

InitEmpty ==
  /\ fs = [p \in AllPaths |-> NoFile]
  /\ fsclock = 0
  /\ clock = 0
  /\ files = <<>>
  /\ items = <<>>
  /\ issues = <<>>
  /\ changes = <<>>
  /\ sessions = <<>>
  /\ entries = <<>>
  /\ scan = ScanIdle
  /\ batch = BatchIdle
  /\ plan = NoPlan
  /\ ret = [op |-> "none"]

(* A small library: a.epub and its copy b.epub were written to /l and /l was    *)
(* scanned once (a.epub visited first).  SpecScan reaches this state.           *)
InitLib ==
  /\ fs = [p \in AllPaths |->
             IF p = PA THEN [hash |-> "h1", mtime |-> 1]
             ELSE IF p = PB THEN [hash |-> "h1", mtime |-> 2]
             ELSE NoFile]
  /\ fsclock = 2
  /\ clock = 1
  /\ files = <<[item |-> 1, path |-> PA, filename |-> <<"a", ".", "epub">>,
                extension |-> <<".", "epub">>, size |-> 10, hash |-> "h1", mtime |-> 1,
                status |-> "active", updated |-> 1],
               [item |-> 1, path |-> PB, filename |-> <<"b", ".", "epub">>,
                extension |-> <<".", "epub">>, size |-> 10, hash |-> "h1", mtime |-> 2,
                status |-> "active", updated |-> 1]>>
  /\ items = <<[title |-> <<"a">>]>>
  /\ issues = <<[item |-> 1, file |-> 2, type |-> "duplicate", resolved |-> FALSE]>>
  /\ changes = <<>>
  /\ sessions = <<[root |-> DirL, status |-> "success"]>>
  /\ entries = <<[session |-> 1, path |-> PA, action |-> "added", file |-> 1],
                 [session |-> 1, path |-> PB, action |-> "added", file |-> 2]>>
  /\ scan = ScanIdle
  /\ batch = BatchIdle
  /\ plan = NoPlan
  /\ ret = [op |-> "scan", ok |-> TRUE, root |-> DirL, session |-> 1,
            stats |-> [ZeroStats EXCEPT !.added = 2], hashed |-> {PA, PB},
            seen |-> {PA, PB}, pre |-> <<>>, preitems |-> <<>>,
            prev |-> [op |-> "fs", kind |-> "write", path |-> PB, to |-> PB,
                      fresh |-> TRUE, after |-> None]]

Init == InitLib

(* Inputs *)
IoOutcomes == {"ok", "fail"}
Modes == {"move", "copy", "reference"}
LibraryRoots == {DirL, DirLX}
Templates == {<<"{Title}", ".", "{ext}">>}
Payloads == {"empty", "e1", "e2"}
IdLists == {ids \in UNION {[1..n -> 1..MaxChanges] : n \in 0..MaxIds} : TRUE}

(* changes of the disk at the given paths, at most max of them *)
FsStepOn(paths, max) ==
  \/ fsclock < max /\ \E p \in paths, h \in Hashes : FsWrite(p, h)
  \/ fsclock < max /\ \E p, q \in paths : FsRename(p, q)
  \/ fsclock < max /\ \E p \in paths : FsDelete(p)

FsStep == FsStepOn(UserPaths, MaxWrites)

(* scans of the given roots *)
ScanStepOn(roots) ==
  \/ clock < MaxClock /\ Len(sessions) < MaxScans /\ \E root \in roots : ScanStart(root)
  \/ \E p \in DOMAIN fs : ScanVisit(p)
  \/ \E p \in DOMAIN fs : ScanVisitErr(p)
  \/ ScanFinish

ScanStep == ScanStepOn(Roots)

(* the scanner over a disk that changes between scans *)
NextScan == FsStep \/ ScanStep

SpecScan == InitEmpty /\ [][NextScan]_vars

(* the scanner over a disk where only two paths are used, followed further *)
NextScanTwo == FsStepOn({PA, PB}, MaxWritesTwo) \/ ScanStep

SpecScanTwo == InitEmpty /\ [][NextScanTwo]_vars

(* the scanner over two sibling directories, /l and /lx, each scanned as a root *)
NextScanSibling == FsStepOn({PA, PX}, MaxWrites) \/ ScanStepOn({DirL, DirLX})

SpecScanSibling == InitEmpty /\ [][NextScanSibling]_vars

QueueStep ==
  \/ clock < MaxClock /\ Len(changes) < MaxChanges
       /\ \E i \in DOMAIN items, pl \in Payloads : queue_epub_changes_for_item(i, pl)
  \/ clock < MaxClock /\ Len(changes) < MaxChanges
       /\ \E r \in FileIds : resolve_duplicate_group(files[r].hash, r)
  \/ clock < MaxClock /\ Len(changes) < MaxChanges /\ generate_pending_changes_from_organize
  \/ clock < MaxClock /\ \E ids \in SUBSET ChangeIds : remove_pending_changes(ids)

ApplyStepAll ==
  \/ clock < MaxClock /\ \E ids \in IdLists : ApplyStart(ids)
  \/ \E io \in IoOutcomes, h \in Hashes : ApplyStep(io, h)
  \/ \E io \in IoOutcomes, h \in Hashes : ApplyStoreErr(io, h)
  \/ ApplyFinish

OrganizeStep ==
  \/ clock < MaxClock
       /\ \E m \in Modes, lr \in LibraryRoots, t \in Templates : plan_organize(m, lr, t)
  \/ clock < MaxClock /\ Len(files) < MaxFiles
       /\ \E ios \in [DOMAIN plan.entries -> IoOutcomes] : apply_organize(ios)

MissingStep ==
  \/ clock < MaxClock /\ \E r \in FileIds, p \in UserPaths : relink_missing_file(r, p)
  \/ clock < MaxClock /\ \E r \in FileIds : remove_missing_file(r)

(* the change queue and its applier over a scanned library *)
NextQueue == QueueStep \/ ApplyStepAll \/ OrganizeStep

SpecQueue == InitLib /\ [][NextQueue]_vars

(* a rename staged from a plan and a metadata edit staged for the same file, *)
(* applied in one batch: one command more than NextQueue allows            *)
StagedStep ==
  \/ clock < MaxClockStaged
       /\ \E m \in Modes, lr \in LibraryRoots, t \in Templates : plan_organize(m, lr, t)
  \/ clock < MaxClockStaged /\ Len(changes) < MaxChanges
       /\ generate_pending_changes_from_organize
  \/ clock < MaxClockStaged /\ Len(changes) < MaxChanges
       /\ \E i \in DOMAIN items, pl \in Payloads : queue_epub_changes_for_item(i, pl)
  \/ clock < MaxClockStaged /\ \E ids \in IdLists : ApplyStart(ids)

NextStaged ==
  \/ StagedStep
  \/ \E io \in IoOutcomes, h \in Hashes : ApplyStep(io, h)
  \/ \E io \in IoOutcomes, h \in Hashes : ApplyStoreErr(io, h)
  \/ ApplyFinish

SpecStaged == InitLib /\ [][NextStaged]_vars

(* a scan and an apply batch that run at the same time, each on its own      *)
(* thread, over renames staged from a plan for the scanned root; the disk   *)
(* changes from outside while neither runs.  The walk yields the files     *)
(* that were in the directory when the scan began; a file that has gone    *)
(* when the walk reaches it makes entry.metadata() fail.                    *)
ConcurrentStep ==
  \/ clock < MaxClockStaged /\ Idle
       /\ \E m \in Modes, t \in Templates : plan_organize(m, DirL, t)
  \/ clock < MaxClockStaged /\ Len(changes) < MaxChanges
       /\ generate_pending_changes_from_organize
  \/ clock < MaxClockStaged /\ Len(sessions) < MaxScans /\ ScanStartConcurrent(DirL)
  \/ clock < MaxClockStaged /\ ApplyStartConcurrent(<<>>)

NextConcurrent ==
  \/ FsStep
  \/ ConcurrentStep
  \/ \E p \in DOMAIN fs : ScanVisit(p)
  \/ \E p \in DOMAIN fs : ScanVisitErr(p)
  \/ ScanFinish
  \/ \E io \in IoOutcomes, h \in Hashes : ApplyStep(io, h)
  \/ \E io \in IoOutcomes, h \in Hashes : ApplyStoreErr(io, h)
  \/ ApplyFinish

SpecConcurrent == InitLib /\ [][NextConcurrent]_vars

Next == FsStep \/ ScanStep \/ QueueStep \/ ApplyStepAll \/ OrganizeStep \/ MissingStep

Spec == Init /\ [][Next]_vars

----------------------------------------------------------------------------
(* Author metadata: merge_author_metadata of author_metadata.rs.  A          *)
(* confidence is written in thousandths; scores are compared in units of    *)
(* 1/6000, in which every bonus of the code is a whole number.  A bio is a  *)
(* text with its number of characters, a photo URL a sequence of tokens.    *)

NoSourceId == "<none>"
NoBio == [text |-> "<none>", chars |-> 0]
NoPhoto == <<>>

Sources == {"openlibrary", "wikidata", "wikipedia"}
SourceIds == {"Q1", "Q2"}
Confidences == {300, 450, 900}
Bios == {[text |-> "short", chars |-> 30], [text |-> "long", chars |-> 300]}
PhotoLarge == <<"https://covers.openlibrary.org/a/id/", "1", "-L.jpg">>
PhotoThumb == <<"https://upload.wikimedia.org/thumb/a.jpg", "/", "1", "2", "0", "px-", "a.jpg">>
Photos == {PhotoLarge, PhotoThumb}

AuthorMetadataCandidate ==
  [source : Sources, source_id : SourceIds \cup {NoSourceId}, bio : Bios \cup {NoBio},
   photo_url : Photos \cup {NoPhoto}, confidence : Confidences]

NoMerged == [is_some |-> FALSE]

Min(a, b) == IF a <= b THEN a ELSE b

Contains(s, tok) == \E i \in DOMAIN s : s[i] = tok

FirstIndexOf(s, tok) == CHOOSE i \in DOMAIN s : s[i] = tok /\ \A j \in 1..(i - 1) : s[j] # tok

(* str::parse::<u32>: the value of a non-empty run of digits, -1 for anything else *)
RECURSIVE DigitsValue(_, _)
DigitsValue(s, acc) ==
  IF s = <<>> THEN acc
  ELSE DigitsValue(Tail(s),
                   10 * acc + (CHOOSE d \in 0..9 : Decimal(d) = <<Head(s)>>))

parse_u32(s) == IF s # <<>> /\ \A i \in DOMAIN s : IsDigit(s[i]) THEN DigitsValue(s, 0) ELSE -1

(* parse_wikipedia_thumbnail_width: the number between the last "/" and the first
   "px-"; -1 for None *)
parse_wikipedia_thumbnail_width(url) ==
  IF ~Contains(url, "px-") THEN -1
  ELSE LET prefix == SubSeq(url, 1, FirstIndexOf(url, "px-") - 1)
       IN IF ~Contains(prefix, "/") THEN -1
          ELSE parse_u32(SubSeq(prefix, LastIndexOf(prefix, "/") + 1, Len(prefix)))

(* estimate_photo_quality_bonus, in units of 1/6000 *)
estimate_photo_quality_bonus(url) ==
  LET lowered == to_lowercase(url)
  IN IF Contains(lowered, "1200x1200") \/ Contains(lowered, "-l.jpg") THEN 720
     ELSE IF parse_wikipedia_thumbnail_width(lowered) >= 0
     THEN Min(3 * parse_wikipedia_thumbnail_width(lowered), 600)
     ELSE IF Contains(lowered, "original") \/ Contains(lowered, "filepath") THEN 540
     ELSE 180

(* (bio.chars().count() / 1500).min(0.12), in units of 1/6000 *)
len_bonus(bio) == Min(4 * bio.chars, 720)

(* Vec::sort_by(|a, b| b.confidence.total_cmp(&a.confidence)): stable, highest first *)
RECURSIVE SortedByConfidence(_)
SortedByConfidence(cs) ==
  IF cs = <<>> THEN <<>>
  ELSE LET rest == SortedByConfidence(SubSeq(cs, 1, Len(cs) - 1))
           c == cs[Len(cs)]
           k == Cardinality({i \in DOMAIN rest : rest[i].confidence >= c.confidence})
       IN SubSeq(rest, 1, k) \o <<c>> \o SubSeq(rest, k + 1, Len(rest))

(* variant of the confidence filter with the threshold at 0.3 *)
RetainedFrom300(c) == c.confidence >= 300

Retained(c) == c.confidence >= 450

(* Iterator::max_by over (value, score): the last of the elements with the highest
   score; 0 when there is none *)
MaxBy(scores) ==
  IF DOMAIN scores = {} THEN 0
  ELSE CHOOSE i \in DOMAIN scores :
         /\ \A j \in DOMAIN scores : scores[j] <= scores[i]
         /\ \A j \in DOMAIN scores : j > i => scores[j] < scores[i]

HasBio(c) == c.bio # NoBio
HasPhoto(c) == c.photo_url # NoPhoto
(* variant of the test for a usable field that looks at the bio only *)
HasFieldBioOnly(c) == c.bio # NoBio

HasField(c) == HasBio(c) \/ HasPhoto(c)
(* variant of the test for a Wikidata identifier that accepts any source *)
HasIdOfAnySource(c) == c.source_id # NoSourceId

HasWikidataId(c) == c.source = "wikidata" /\ c.source_id # NoSourceId
HasSourceId(c) == c.source_id # NoSourceId

(* dedupe_sources: the sources in order of first appearance *)
RECURSIVE dedupe_sources(_)
dedupe_sources(values) ==
  IF values = <<>> THEN <<>>
  ELSE LET rest == dedupe_sources(SubSeq(values, 1, Len(values) - 1))
           v == values[Len(values)]
       IN IF Contains(rest, v) THEN rest ELSE Append(rest, v)

merge_author_metadata(candidates) ==
  LET scored == SortedByConfidence(SelectSeq(candidates, Retained))
      withBio == SelectSeq(scored, HasBio)
      withPhoto == SelectSeq(scored, HasPhoto)
      bioAt == MaxBy([i \in DOMAIN withBio |->
                        6 * withBio[i].confidence + len_bonus(withBio[i].bio)])
      photoAt == MaxBy([i \in DOMAIN withPhoto |->
                          6 * withPhoto[i].confidence
                            + estimate_photo_quality_bonus(withPhoto[i].photo_url)])
      wikidata == SelectSeq(scored, HasWikidataId)
      anyId == SelectSeq(scored, HasSourceId)
      withField == SelectSeq(scored, HasField)
      unique_sources == dedupe_sources([i \in DOMAIN withField |-> withField[i].source])
  IN IF candidates = <<>> THEN NoMerged
     ELSE IF scored = <<>> THEN NoMerged
     ELSE IF withBio = <<>> /\ withPhoto = <<>> THEN NoMerged
     ELSE [is_some |-> TRUE,
           metadata_source |-> IF Len(unique_sources) > 1 THEN "merged" ELSE scored[1].source,
           metadata_source_id |-> IF wikidata # <<>> THEN wikidata[1].source_id
                                  ELSE IF anyId # <<>> THEN anyId[1].source_id
                                  ELSE NoSourceId,
           bio |-> IF withBio = <<>> THEN NoBio ELSE withBio[bioAt].bio,
           photo_url |-> IF withPhoto = <<>> THEN NoPhoto ELSE withPhoto[photoAt].photo_url]

CandidateLists == UNION {[1..n -> AuthorMetadataCandidate] : n \in 0..MaxCandidates}

(* the candidates collected for an author, before they are merged *)
InitMerge ==
  /\ fs = [p \in AllPaths |-> NoFile]
  /\ fsclock = 0
  /\ clock = 0
  /\ files = <<>>
  /\ items = <<>>
  /\ issues = <<>>
  /\ changes = <<>>
  /\ sessions = <<>>
  /\ entries = <<>>
  /\ scan = ScanIdle
  /\ batch = BatchIdle
  /\ plan = NoPlan
  /\ \E cs \in CandidateLists : ret = [op |-> "author_candidates", candidates |-> cs]

(* fetch_merged_author_metadata: the candidates are merged and the result returned *)
MergeStep ==
  /\ ret.op = "author_candidates"
  /\ ret' = [op |-> "author_metadata", candidates |-> ret.candidates,
             merged |-> merge_author_metadata(ret.candidates)]
  /\ UNCHANGED <<fs, fsclock, clock, files, items, issues, changes, sessions, entries,
                 scan, batch, plan>>

NextMerge == MergeStep

SpecMerge == InitMerge /\ [][NextMerge]_vars

----------------------------------------------------------------------------
(* Item metadata: apply_metadata merges the metadata extracted from a file  *)
(* into the item row.  An absent value (NULL, Option::None) is Null.  A     *)
(* description is a sequence of tokens: words, blanks, line breaks, HTML    *)
(* tags and XML entities; a number is written as its decimal token.  In    *)
(* the library model above an item carries its title only, which the scan  *)
(* always sets from the file name.                                          *)

Null == <<"<null>">>

Titles == {<<"a">>, <<"b">>}
Languages == {<<"en">>}
Years == {<<"1999">>}
SeriesNames == {<<"s">>}
SeriesIndexes == {<<"1">>}
Descriptions ==
  {<<"t">>,
   <<"<p>", "t", "</p>">>,
   <<" ">>,
   <<"t", "<br>", " ", "u">>,
   <<"t", "&amp;", "u">>}

Opt(S) == S \cup {Null}

ItemRows ==
  [title : Opt(Titles), language : Opt(Languages), published_year : Opt(Years),
   description : Opt(Descriptions), series : Opt(SeriesNames),
   series_index : Opt(SeriesIndexes)]

ExtractedMetadata == ItemRows

(* Option::or / or_else *)
or_else(existing, other) == IF existing # Null THEN existing ELSE other

IsTag(t) == t \in {"<p>", "</p>", "<br>", "<li>", "<b>", "</b>"}

(* quick_xml::escape::unescape and the replacement of the no-break space *)
unescape_tok(t) ==
  CASE t = "&amp;" -> "&"
    [] t = "&nbsp;" -> " "
    [] OTHER -> t

(* the four regex replacements made when the text holds an HTML tag *)
strip_tag(t) ==
  CASE t = "<br>" -> <<"\n">>
    [] t \in {"</p>"} -> <<"\n">>
    [] t = "<li>" -> <<"-", " ">>
    [] IsTag(t) -> <<>>
    [] OTHER -> <<t>>

RECURSIVE FlatMap(_, _)
FlatMap(s, i) ==
  IF i > Len(s) THEN <<>> ELSE strip_tag(s[i]) \o FlatMap(s, i + 1)

(* str::lines *)
RECURSIVE Lines(_, _, _)
Lines(s, i, cur) ==
  IF i > Len(s) THEN (IF cur = <<>> THEN <<>> ELSE <<cur>>)
  ELSE IF s[i] = "\n" THEN <<cur>> \o Lines(s, i + 1, <<>>)
  ELSE Lines(s, i + 1, Append(cur, s[i]))

(* str::trim *)
RECURSIVE trim(_)
trim(s) ==
  IF s = <<>> THEN s
  ELSE IF s[1] = " " THEN trim(Tail(s))
  ELSE IF s[Len(s)] = " " THEN trim(SubSeq(s, 1, Len(s) - 1))
  ELSE s

(* [String]::join("\n") *)
RECURSIVE JoinLines(_)
JoinLines(ls) ==
  IF ls = <<>> THEN <<>>
  ELSE IF Len(ls) = 1 THEN ls[1]
  ELSE ls[1] \o <<"\n">> \o JoinLines(Tail(ls))

normalize_optional_description(value) ==
  IF value = Null THEN Null
  ELSE LET decoded == [i \in DOMAIN value |-> unescape_tok(value[i])]
           normalized == IF \E i \in DOMAIN decoded : IsTag(decoded[i])
                         THEN FlatMap(decoded, 1) ELSE decoded
           trimmed == [i \in DOMAIN Lines(normalized, 1, <<>>) |->
                         trim(Lines(normalized, 1, <<>>)[i])]
           lines == SelectSeq(trimmed, LAMBDA l : l # <<>>)
       IN IF lines = <<>> THEN Null ELSE JoinLines(lines)

(* variant of the merge in which the extracted value comes first *)
apply_metadata_extracted_first(existing, metadata) ==
  [title |-> or_else(metadata.title, existing.title),
   language |-> or_else(metadata.language, existing.language),
   published_year |-> or_else(metadata.published_year, existing.published_year),
   description |->
     normalize_optional_description(or_else(metadata.description, existing.description)),
   series |-> or_else(metadata.series, existing.series),
   series_index |-> or_else(metadata.series_index, existing.series_index)]

(* the row written by UPDATE items SET title = ?1, ... WHERE id = ?8 *)
apply_metadata(existing, metadata) ==
  [title |-> or_else(existing.title, metadata.title),
   language |-> or_else(existing.language, metadata.language),
   published_year |-> or_else(existing.published_year, metadata.published_year),
   description |->
     normalize_optional_description(or_else(existing.description, metadata.description)),
   series |-> or_else(existing.series, metadata.series),
   series_index |-> or_else(existing.series_index, metadata.series_index)]

(* an item row and the metadata extracted from one of its files *)
InitMetadata ==
  /\ fs = [p \in AllPaths |-> NoFile]
  /\ fsclock = 0
  /\ clock = 0
  /\ files = <<>>
  /\ \E row \in ItemRows : items = <<row>>
  /\ issues = <<>>
  /\ changes = <<>>
  /\ sessions = <<>>
  /\ entries = <<>>
  /\ scan = ScanIdle
  /\ batch = BatchIdle
  /\ plan = NoPlan
  /\ \E m \in ExtractedMetadata : ret = [op |-> "extract_metadata", metadata |-> m]

(* if let Ok(metadata) = extract_metadata(path) { apply_metadata(...) } *)
MetadataStep ==
  /\ ret.op = "extract_metadata"
  /\ items' = [items EXCEPT ![1] = apply_metadata(@, ret.metadata)]
  /\ ret' = [op |-> "apply_metadata", metadata |-> ret.metadata, existing |-> items[1]]
  /\ UNCHANGED <<fs, fsclock, clock, files, issues, changes, sessions, entries,
                 scan, batch, plan>>

NextMetadata == MetadataStep

SpecMetadata == InitMetadata /\ [][NextMetadata]_vars

----------------------------------------------------------------------------
(* Properties *)

(* the last operation was a scan that ran to its end *)
ScanDone == ret.op = "scan" /\ ret.ok

(* C1: between operations, no two FileRecords with status active have the  *)
(* same path, whatever scans and changes of the disk came before           *)
C1_OneActivePerPath ==
  Idle => \A a, b \in FileIds :
            (a # b /\ files[a].status = "active" /\ files[b].status = "active")
              => files[a].path # files[b].path

(* C2: a FileRecord whose status is inactive keeps that status in every    *)
(* step of every operation                                                 *)
C2_InactiveIsTerminal ==
  [][\A r \in FileIds : files[r].status = "inactive" => files'[r].status = "inactive"]_vars

(* C3: a PendingChange that is applied or error keeps its status in every  *)
(* step, also when an id list names it more than once                      *)
C3_StatusOneWay ==
  [][\A c \in ChangeIds :
       changes[c].status \in {"applied", "error"} => changes'[c].status = changes[c].status]_vars

(* C4: a completed scan of a root that directly follows a completed scan   *)
(* of the same root reports added = updated = moved = missing = 0 and has  *)
(* hashed no file                                                          *)
C4_IdempotentRescan ==
  (ScanDone /\ ret.prev.op = "scan" /\ ret.prev.ok /\ ret.prev.root = ret.root)
    => /\ ret.stats.added = 0 /\ ret.stats.updated = 0
       /\ ret.stats.moved = 0 /\ ret.stats.missing = 0
       /\ ret.hashed = {}

(* a completed scan of a root that directly followed one change of the     *)
(* disk, which directly followed a completed scan of the same root         *)
ScanAfter(kind) ==
  ScanDone /\ ret.prev.op = "fs" /\ ret.prev.kind = kind /\ ret.prev.after = ret.root

(* the records that stood for the scanned file at path p when the scan began *)
ScannedAt(p, f) ==
  {r \in DOMAIN ret.pre : /\ ret.pre[r].path = p /\ ret.pre[r].status = "active"
                           /\ ret.pre[r].hash = f.hash /\ ret.pre[r].mtime = f.mtime}

(* the records the scan created *)
Created == FileIds \ DOMAIN ret.pre

(* C5: a scanned file is renamed on disk and the root is rescanned: the    *)
(* file is logged as moved, its record keeps its id and item and has the   *)
(* new path with status active, and no FileRecord or Item is created       *)
C5_MoveDetection ==
  ScanAfter("rename") =>
    \A r \in ScannedAt(ret.prev.path, fs[ret.prev.to]) :
      /\ files[r].path = ret.prev.to /\ files[r].status = "active"
      /\ files[r].item = ret.pre[r].item
      /\ \E e \in Range(entries) : e.path = ret.prev.to /\ e.action = "moved" /\ e.file = r
      /\ Created = {} /\ items = ret.preitems

(* the originals of a copy written to the new path q: records of scanned   *)
(* files elsewhere on disk with the same content                           *)
OriginalsOf(q) ==
  {o \in DOMAIN ret.pre : /\ ret.pre[o].path # q /\ Exists(ret.pre[o].path)
                           /\ fs[ret.pre[o].path].hash = fs[q].hash
                           /\ o \in ScannedAt(ret.pre[o].path, fs[ret.pre[o].path])}

(* C6: a scanned file is copied to a path where no file was and the root   *)
(* is rescanned: exactly one FileRecord is created at the new path, with   *)
(* the hash and the item of the original, a duplicate issue is raised for  *)
(* it, and the original record keeps its path, status, hash and item       *)
C6_DuplicateDetection ==
  (ScanAfter("write") /\ ret.prev.fresh) =>
    \A o \in OriginalsOf(ret.prev.path) :
      /\ Cardinality({n \in Created : files[n].path = ret.prev.path}) = 1
      /\ \A n \in Created :
           files[n].path = ret.prev.path
             => /\ files[n].hash = ret.pre[o].hash /\ files[n].item = ret.pre[o].item
                /\ files[n].status = "active"
                /\ \E i \in DOMAIN issues : /\ issues[i].type = "duplicate"
                                             /\ issues[i].file = n /\ ~issues[i].resolved
                /\ \E e \in Range(entries) : e.path = ret.prev.path /\ e.file = n
      /\ files[o].path = ret.pre[o].path /\ files[o].status = ret.pre[o].status
      /\ files[o].hash = ret.pre[o].hash /\ files[o].item = ret.pre[o].item
      /\ items = ret.preitems

(* a copy was scanned: an original exists and a record stands at the new path *)
C6_Witness ==
  /\ ScanAfter("write") /\ ret.prev.fresh
  /\ OriginalsOf(ret.prev.path) # {}
  /\ \E n \in Created : files[n].path = ret.prev.path

(* the records that were active at path p when the scan began *)
ActiveAt(p) == {r \in DOMAIN ret.pre : ret.pre[r].path = p /\ ret.pre[r].status = "active"}

(* C7: a scanned file is deleted from disk and the root is rescanned: its  *)
(* record is still there, at its path, with status missing, it is logged   *)
(* as missing, and the missing count is the number of records that went    *)
(* missing in this scan                                                    *)
C7_MissingDetection ==
  ScanAfter("delete") =>
    /\ \A r \in ActiveAt(ret.prev.path) :
         /\ r \in FileIds /\ files[r].status = "missing"
         /\ files[r].path = ret.pre[r].path
         /\ \E e \in Range(entries) : e.action = "missing" /\ e.file = r
    /\ ret.stats.missing =
         Cardinality({r \in DOMAIN ret.pre : /\ ret.pre[r].status = "active"
                                              /\ files[r].status = "missing"})

(* a deleted file that had an active record was rescanned *)
C7_Witness ==
  /\ ScanAfter("delete") /\ ActiveAt(ret.prev.path) # {}
  /\ ret.stats.missing >= 1

(* the changes the batch that has just ended had selected *)
BatchIds == {ret.queue[i].id : i \in DOMAIN ret.queue}

(* C8: when an apply batch ends, every selected change is applied or       *)
(* error, processed is the number of changes the batch marked applied and  *)
(* errors the number it marked error                                       *)
C8_PartialFailureIsolation ==
  ret.op = "apply" =>
    /\ \A c \in BatchIds : changes[c].status \in {"applied", "error"}
    /\ ret.stats.processed = Cardinality({c \in BatchIds : changes[c].status = "applied"})
    /\ ret.stats.errors = Cardinality({c \in BatchIds : changes[c].status = "error"})

(* C9: a pending metadata-edit change is the only pending one of its file  *)
(* and the last metadata-edit change enqueued for that file                *)
C9_EpubSupersession ==
  \A c, d \in ChangeIds :
    (/\ changes[c].type = "epub_meta" /\ changes[c].status = "pending"
     /\ d # c /\ changes[d].type = "epub_meta" /\ changes[d].file = changes[c].file)
      => d < c /\ changes[d].status # "pending"

(* a second metadata edit was enqueued for a file whose first was pending  *)
C9_Witness ==
  /\ ret.op = "queue_epub"
  /\ \E c, d \in ChangeIds :
       /\ d < c /\ changes[d].file = changes[c].file
       /\ changes[c].type = "epub_meta" /\ changes[c].status = "pending"
       /\ changes[d].type = "epub_meta" /\ changes[d].status = "deleted"
       /\ changes[d].payload # changes[c].payload

(* C10: there is never more than one pending change for the same file and  *)
(* the same type, whichever flow enqueued them                             *)
C10_OnePendingPerFileAndType ==
  \A c, d \in ChangeIds :
    (/\ changes[c].status = "pending" /\ changes[d].status = "pending"
     /\ changes[c].file = changes[d].file /\ changes[c].type = changes[d].type)
      => c = d

(* the last operation was plan_organize: plan is the plan of the present   *)
(* records and disk                                                        *)
Planned == ret.op = "plan_organize"

(* the path the template renders for the file of plan entry e *)
RenderedTarget(e) ==
  join(plan.library_root,
       render_template(plan.template, <<>>, items[files[e.file].item].title,
                       files[e.file].extension))

(* stem is base followed by a space and a bracketed number *)
HasCollisionSuffix(stem, base) ==
  \E k \in 1..Len(stem) :
    /\ SubSeq(stem, 1, Len(base)) = base /\ Len(stem) = Len(base) + 3 + k
    /\ stem[Len(base) + 1] = " " /\ stem[Len(base) + 2] = "[" /\ stem[Len(stem)] = "]"
    /\ \A i \in (Len(base) + 3)..(Len(stem) - 1) : IsDigit(stem[i])

(* C11: in move or copy mode, a file whose path is the rendered target, or *)
(* is in the target's directory with the target's stem followed by a       *)
(* collision suffix, gets action skip                                      *)
C11_SkipEquivalence ==
  (Planned /\ plan.mode \in {"move", "copy"}) =>
    \A i \in DOMAIN plan.entries :
      LET e == plan.entries[i]
          t == RenderedTarget(e)
      IN (\/ files[e.file].path = t
          \/ /\ parent(files[e.file].path) = parent(t)
             /\ HasCollisionSuffix(file_stem(files[e.file].path), file_stem(t)))
           => e.action = "skip"

(* a file that carries a collision suffix was planned and skipped *)
C11_Witness ==
  /\ Planned /\ plan.mode \in {"move", "copy"}
  /\ \E i \in DOMAIN plan.entries :
       /\ plan.entries[i].action = "skip"
       /\ HasCollisionSuffix(file_stem(files[plan.entries[i].file].path),
                             file_stem(RenderedTarget(plan.entries[i])))

(* path t with " [k]" appended to the stem of its file name *)
WithSuffix(t, k) ==
  LET d == LastIndexOf(file_name(t), ".")
      n == Len(t) - Len(file_name(t))
  IN IF d <= 1 THEN t \o <<" ", "[">> \o Decimal(k) \o <<"]">>
     ELSE SubSeq(t, 1, n + d - 1) \o <<" ", "[">> \o Decimal(k) \o <<"]">>
            \o SubSeq(t, n + d, Len(t))

(* C12: the target of a non-skip plan entry does not exist on disk; it is  *)
(* the rendered path when that is free, and otherwise the rendered path    *)
(* with the smallest free suffix [k], k >= 1                               *)
C12_CollisionSafePlanning ==
  Planned =>
    \A i \in DOMAIN plan.entries :
      LET e == plan.entries[i]
          t == RenderedTarget(e)
      IN e.action # "skip" =>
           /\ ~Exists(e.target)
           /\ IF ~Exists(t) THEN e.target = t
              ELSE \E k \in 1..(Cardinality(DOMAIN fs) + 1) :
                     /\ e.target = WithSuffix(t, k)
                     /\ \A j \in 1..(k - 1) : Exists(WithSuffix(t, j))

(* a plan whose rendered path and its [1] variant were both occupied *)
C12_Witness ==
  /\ Planned
  /\ \E i \in DOMAIN plan.entries :
       /\ plan.entries[i].action # "skip"
       /\ Exists(RenderedTarget(plan.entries[i]))
       /\ plan.entries[i].target = WithSuffix(RenderedTarget(plan.entries[i]), 2)

C14_NoBatchAborted ==
  ret.op \in {"apply", "apply_failed"} =>
    /\ ret.op = "apply"
    /\ ret.stats.processed + ret.stats.errors = ret.stats.total
    /\ \A c \in BatchIds : changes[c].status # "pending"

(* C15: when a scan has returned, its session is success if the walk was   *)
(* completed and failed if the scan stopped on an error, and while no scan *)
(* is under way no session is running                                      *)
C15_SessionTerminal ==
  /\ (ret.op = "scan" =>
        sessions[ret.session].status = (IF ret.ok THEN "success" ELSE "failed"))
  /\ (scan.pc = "idle" =>
        \A s \in DOMAIN sessions : sessions[s].status \in {"success", "failed"})

(* C16: when a scan has returned, every supported file under its root,     *)
(* other than one whose stat or hash failed, has an entry of this scan,    *)
(* and the missing pass has run: no active record under the root is left   *)
(* at a path where there is no file                                        *)
C16_ScanFailureIsolation ==
  ret.op = "scan" =>
    /\ \A p \in ScanTargets(ret.root) :
         (ret.ok \/ p # ret.path) =>
           \E i \in DOMAIN entries :
             entries[i].session = ret.session /\ entries[i].path = p
    /\ MissingCandidates(ret.root, ScanTargets(ret.root)) = {}

(* the file classified by the step of the walk that is being taken *)
Visiting(p) == scan.pc = "walk" /\ scan'.pc = "walk" /\ p \in scan.todo /\ p \notin scan'.todo

(* C17: when the walk visits a file that has a non-inactive record at its  *)
(* path with the file's size and modified time, the file is classified     *)
(* unchanged and is not hashed, the record keeps its path, hash and item,  *)
(* and a record that was missing becomes active                            *)
C17_UnchangedFastPath ==
  [][\A p \in DOMAIN fs : \A r \in FileIds :
       (Visiting(p) /\ r \in ExistingByPath(p) /\ StatMatches(r, p)) =>
         /\ entries' = Append(entries, [session |-> scan.session, path |-> p,
                                        action |-> "unchanged", file |-> r])
         /\ scan'.hashed = scan.hashed
         /\ scan'.stats = [scan.stats EXCEPT !.unchanged = @ + 1]
         /\ files'[r].path = files[r].path
         /\ files'[r].hash = files[r].hash
         /\ files'[r].item = files[r].item
         /\ files'[r].status = "active"]_vars

(* the step being taken handles the next change of the batch and records *)
(* its result                                                            *)
Handling == batch.pc = "run" /\ batch'.pc = "run" /\ batch'.index = batch.index + 1

(* C18: a delete change whose file is not on disk is applied; and when a   *)
(* delete change is applied the file is not on disk, its record is         *)
(* inactive and every duplicate issue of that record is resolved           *)
C18_DeleteIdempotent ==
  [][Handling =>
       LET c == batch.queue[batch.index]
       IN c.type = "delete" =>
            /\ (c.from # NoPath /\ ~Exists(c.from)) => changes'[c.id].status = "applied"
            /\ changes'[c.id].status = "applied" =>
                 /\ fs'[c.from] = NoFile
                 /\ files'[c.file].status = "inactive"
                 /\ \A i \in DOMAIN issues' :
                      (issues'[i].type = "duplicate" /\ issues'[i].file = c.file)
                        => issues'[i].resolved]_vars

(* a batch applied two delete changes of the same path one after the other: *)
(* the second found no file, and an issue of the record was resolved        *)
C18_Witness ==
  /\ batch.pc = "run" /\ batch.index = 3
  /\ batch.queue[1].type = "delete" /\ batch.queue[2].type = "delete"
  /\ batch.queue[1].from = batch.queue[2].from
  /\ batch.stats.processed = 2
  /\ changes[batch.queue[2].id].status = "applied"
  /\ files[batch.queue[2].file].status = "inactive"
  /\ \E i \in DOMAIN issues : issues[i].file = batch.queue[2].file /\ issues[i].resolved

(* C19: when a delete change has been handled and its file is still on     *)
(* disk, the change is error with a message and the record is active       *)
C19_FailedDeleteKeepsFile ==
  [][Handling =>
       LET c == batch.queue[batch.index]
       IN (c.type = "delete" /\ c.from # NoPath /\ fs'[c.from] # NoFile) =>
            /\ changes'[c.id].status = "error"
            /\ changes'[c.id].error # NoError
            /\ files'[c.file].status = "active"]_vars

(* a delete change failed: the file is still on disk and its record, set *)
(* inactive when the change was queued, is active again                 *)
C19_Witness ==
  /\ batch.pc = "run" /\ batch.index = 2
  /\ batch.queue[1].type = "delete" /\ Exists(batch.queue[1].from)
  /\ changes[batch.queue[1].id].status = "error"
  /\ changes[batch.queue[1].id].error = "Could not delete file"
  /\ files[batch.queue[1].file].status = "active"

(* the path a rename change moves the file from *)
RenameFrom(c) == IF c.from # NoPath THEN c.from ELSE files[c.file].path

(* C20: when a rename change is applied, the file that was at its from     *)
(* path is at its to path and no longer at the from path, and the record   *)
(* has the to path with its file name and its extension, in the form the   *)
(* scanner records; when the change has no to path or the disk is left as  *)
(* it was, the change is error and the record keeps its path, file name    *)
(* and extension                                                           *)
C20_RenameApply ==
  [][Handling =>
       LET c == batch.queue[batch.index]
       IN c.type = "rename" =>
            /\ changes'[c.id].status = "applied" =>
                 /\ fs'[c.to] = fs[RenameFrom(c)] /\ fs'[c.to] # NoFile
                 /\ fs'[RenameFrom(c)] = NoFile
                 /\ files'[c.file].path = c.to
                 /\ files'[c.file].filename = file_name(c.to)
                 /\ files'[c.file].extension = dot_ext(c.to)
            /\ (c.to = NoPath \/ fs' = fs) =>
                 /\ changes'[c.id].status = "error"
                 /\ files'[c.file].path = files[c.file].path
                 /\ files'[c.file].filename = files[c.file].filename
                 /\ files'[c.file].extension = files[c.file].extension]_vars

(* C21: a batch started with an empty id list has selected every change    *)
(* that was pending and no other, each once, in non-decreasing order of    *)
(* created; it handles them in that order one at a time: the changes       *)
(* before its position have their status written, those from its position  *)
(* on are still pending                                                    *)
C21_CreationOrder ==
  (batch.pc = "run" /\ batch.ids = <<>>) =>
    /\ \A i, j \in DOMAIN batch.queue :
         i < j => /\ batch.queue[i].id # batch.queue[j].id
                  /\ changes[batch.queue[i].id].created <= changes[batch.queue[j].id].created
    /\ \A c \in ChangeIds :
         changes[c].status = "pending" =>
           \E i \in DOMAIN batch.queue : i >= batch.index /\ batch.queue[i].id = c
    /\ \A i \in DOMAIN batch.queue :
         IF i < batch.index THEN changes[batch.queue[i].id].status \in {"applied", "error"}
         ELSE changes[batch.queue[i].id].status = "pending"

(* a batch over all pending changes has handled two changes that were *)
(* created at different times, the older one first                    *)
C21_Witness ==
  /\ batch.pc = "run" /\ batch.ids = <<>> /\ batch.index = 3
  /\ changes[batch.queue[1].id].created < changes[batch.queue[2].id].created
  /\ changes[batch.queue[1].id].status = "error"
  /\ changes[batch.queue[2].id].status = "applied"

(* the entries of the plan that are for file record r *)
EntriesOf(r) == {i \in DOMAIN plan.entries : plan.entries[i].file = r}

(* C22: a plan has exactly one entry for every active file record and none *)
(* for a record that is missing or inactive                                *)
C22_OneEntryPerActiveFile ==
  Planned =>
    /\ \A i \in DOMAIN plan.entries : plan.entries[i].file \in FileIds
    /\ \A r \in FileIds :
         Cardinality(EntriesOf(r)) = (IF files[r].status = "active" THEN 1 ELSE 0)

(* a plan made over a missing, an inactive and an active record *)
C22_Witness ==
  /\ Planned /\ plan.entries # <<>>
  /\ \E r \in FileIds : files[r].status = "missing"
  /\ \E r \in FileIds : files[r].status = "inactive"

NonSkip(e) == e.action # "skip"

(* C23: generate_pending_changes_from_organize adds, after the changes     *)
(* there were, one pending rename change for every non-skip entry of the   *)
(* plan, in their order, with the entry's file, source and target, adds    *)
(* nothing for a skip entry, and returns the number of changes it added    *)
C23_PlanToQueue ==
  [][(ret'.op = "generate_pending" /\ clock' # clock) =>
       LET todo == SelectSeq(plan.entries, NonSkip)
           new == SubSeq(changes', Len(changes) + 1, Len(changes'))
       IN /\ SubSeq(changes', 1, Len(changes)) = changes
          /\ Len(new) = Len(todo)
          /\ ret'.created = Len(todo)
          /\ \A i \in DOMAIN todo :
               /\ new[i].file = todo[i].file
               /\ new[i].type = "rename"
               /\ new[i].from = todo[i].source
               /\ new[i].to = todo[i].target
               /\ new[i].status = "pending"]_vars

(* changes were queued from a plan with a skip entry and an entry to carry out *)
C23_Witness ==
  /\ ret.op = "generate_pending" /\ ret.created = 1
  /\ \E i, j \in DOMAIN plan.entries :
       plan.entries[i].action = "skip" /\ plan.entries[j].action # "skip"
  /\ changes[Len(changes)].type = "rename"

(* the disk of the model holds files only: a directory is there while a    *)
(* file is below it                                                        *)
RootExists(root) == \E p \in DOMAIN fs : Exists(p) /\ Inside(root, p)

(* the root of the scan whose step is being taken *)
ScanningRoot == IF scan.pc = "walk" THEN scan.root ELSE scan'.root

(* C24: a scan of a root that is not on the disk creates no session,       *)
(* changes the status of no file record and does not return success        *)
C24_CouldNotStart ==
  [][(scan' # scan /\ ~RootExists(ScanningRoot)) =>
       /\ sessions' = sessions
       /\ \A r \in FileIds : files'[r].status = files[r].status
       /\ (ret'.op = "scan" => ~ret'.ok)]_vars

Merged == ret.op = "author_metadata"

(* the candidates given to the merge that have confidence 0.45 or more *)
RetainedCandidates == {i \in DOMAIN ret.candidates : ret.candidates[i].confidence >= 450}

(* C25: the merge returns no result exactly when no candidate with         *)
(* confidence 0.45 or more has a bio or a photo URL                        *)
C25_MergeNone ==
  Merged =>
    (ret.merged.is_some <=>
       \E i \in RetainedCandidates :
         ret.candidates[i].bio # NoBio \/ ret.candidates[i].photo_url # NoPhoto)

(* no result for a candidate of high confidence with neither field, next  *)
(* to a candidate of low confidence that has both                         *)
C25_Witness ==
  /\ Merged /\ ~ret.merged.is_some /\ Len(ret.candidates) = 2
  /\ \E i, j \in DOMAIN ret.candidates :
       /\ ret.candidates[i].confidence = 900
       /\ ret.candidates[i].bio = NoBio /\ ret.candidates[i].photo_url = NoPhoto
       /\ ret.candidates[j].confidence = 300
       /\ ret.candidates[j].bio # NoBio /\ ret.candidates[j].photo_url # NoPhoto

(* the sources of the retained candidates that have a bio or a photo URL *)
ContributingSources ==
  {ret.candidates[i].source : i \in {j \in RetainedCandidates :
      ret.candidates[j].bio # NoBio \/ ret.candidates[j].photo_url # NoPhoto}}

(* the retained candidates of the highest confidence *)
TopCandidates ==
  {i \in RetainedCandidates :
     \A j \in RetainedCandidates : ret.candidates[j].confidence <= ret.candidates[i].confidence}

(* C26: in a merged result the bio is that of a retained candidate and is  *)
(* present exactly when some retained candidate has one, likewise the      *)
(* photo URL; the source is merged exactly when the retained candidates    *)
(* that have a bio or a photo URL come from more than one source, and      *)
(* otherwise it is the source of a retained candidate of the highest       *)
(* confidence                                                              *)
C26_MergeFields ==
  (Merged /\ ret.merged.is_some) =>
    /\ ret.merged.bio \in {ret.candidates[i].bio : i \in RetainedCandidates} \cup {NoBio}
    /\ (ret.merged.bio # NoBio <=> \E i \in RetainedCandidates : ret.candidates[i].bio # NoBio)
    /\ ret.merged.photo_url
         \in {ret.candidates[i].photo_url : i \in RetainedCandidates} \cup {NoPhoto}
    /\ (ret.merged.photo_url # NoPhoto
          <=> \E i \in RetainedCandidates : ret.candidates[i].photo_url # NoPhoto)
    /\ IF Cardinality(ContributingSources) > 1
       THEN ret.merged.metadata_source = "merged"
       ELSE ret.merged.metadata_source \in {ret.candidates[i].source : i \in TopCandidates}

(* the candidate of the highest confidence has a photo and no bio: the bio *)
(* comes from the other candidate, of another source                       *)
C26_Witness ==
  /\ Merged /\ ret.merged.is_some /\ Len(ret.candidates) = 2
  /\ ret.candidates[1].confidence = 900 /\ ret.candidates[1].bio = NoBio
  /\ ret.candidates[1].photo_url # NoPhoto
  /\ ret.candidates[2].confidence = 450 /\ ret.candidates[2].bio # NoBio
  /\ ret.candidates[2].source # ret.candidates[1].source
  /\ ret.merged.bio = ret.candidates[2].bio
  /\ ret.merged.photo_url = ret.candidates[1].photo_url
  /\ ret.merged.metadata_source = "merged"

(* the retained candidates of source wikidata that have a source id *)
WikidataWithId ==
  {i \in RetainedCandidates : /\ ret.candidates[i].source = "wikidata"
                               /\ ret.candidates[i].source_id # NoSourceId}

(* the retained candidates that have a source id *)
WithId == {i \in RetainedCandidates : ret.candidates[i].source_id # NoSourceId}

(* the members of S of the highest confidence *)
TopOf(S) == {i \in S : \A j \in S : ret.candidates[j].confidence <= ret.candidates[i].confidence}

(* C27: the source id of a merged result is that of a retained wikidata    *)
(* candidate (of the best of them) when one has a source id, whatever the  *)
(* confidence of the other sources; otherwise that of the retained         *)
(* candidate of the highest confidence among those that have one; and      *)
(* none when no retained candidate has a source id                         *)
C27_PrefersWikidataId ==
  (Merged /\ ret.merged.is_some) =>
    IF WikidataWithId # {}
    THEN ret.merged.metadata_source_id
           \in {ret.candidates[i].source_id : i \in TopOf(WikidataWithId)}
    ELSE IF WithId # {}
    THEN ret.merged.metadata_source_id \in {ret.candidates[i].source_id : i \in TopOf(WithId)}
    ELSE ret.merged.metadata_source_id = NoSourceId

(* the wikidata id was taken although a candidate of another source, with  *)
(* another id, has the higher confidence                                   *)
C27_Witness ==
  /\ Merged /\ ret.merged.is_some /\ Len(ret.candidates) = 2
  /\ ret.candidates[1].source = "wikipedia" /\ ret.candidates[1].confidence = 900
  /\ ret.candidates[1].source_id = "Q1"
  /\ ret.candidates[2].source = "wikidata" /\ ret.candidates[2].confidence = 450
  /\ ret.candidates[2].source_id = "Q2"
  /\ ret.merged.metadata_source_id = "Q2"

(* C28: when a step of the walk raises an issue, it is a duplicate issue   *)
(* for a record that was there before the step and has the hash of the     *)
(* record the step created, and the step changes no record that was there  *)
(* and no item                                                             *)
C28_DuplicateIssueOnOriginal ==
  [][(scan.pc = "walk" /\ Len(issues') > Len(issues)) =>
       LET issue == issues'[Len(issues')]
       IN /\ issue.type = "duplicate"
          /\ Len(files') = Len(files) + 1
          /\ issue.file \in DOMAIN files
          /\ files[issue.file].hash = files'[Len(files')].hash
          /\ \A r \in DOMAIN files : files'[r] = files[r]
          /\ items' = items]_vars

(* C29: a completed scan of a root leaves the status of every record as it *)
(* was when the record's path was outside the root's directory before the  *)
(* scan and is outside it after                                            *)
C29_ScanFrame ==
  ScanDone =>
    \A r \in DOMAIN ret.pre :
      (~Inside(ret.root, ret.pre[r].path) /\ ~Inside(ret.root, files[r].path))
        => files[r].status = ret.pre[r].status

(* C30: when the walk visits a file that has a non-inactive record at its  *)
(* path with another size or modified time, and no non-inactive record has *)
(* the file's hash, the file is hashed and classified updated for such a   *)
(* record, which keeps its path and item, gets the file's size, hash and   *)
(* modified time and is active; no record and no item is created           *)
C30_UpdatedClassification ==
  [][\A p \in DOMAIN fs :
       (/\ Visiting(p)
        /\ \E r \in ExistingByPath(p) : ~StatMatches(r, p)
        /\ \A o \in FileIds : files[o].status # "inactive" => files[o].hash # fs[p].hash) =>
         /\ Len(files') = Len(files) /\ items' = items
         /\ p \in scan'.hashed
         /\ scan'.stats = [scan.stats EXCEPT !.updated = @ + 1]
         /\ \E r \in ExistingByPath(p) :
              /\ ~StatMatches(r, p)
              /\ entries' = Append(entries, [session |-> scan.session, path |-> p,
                                             action |-> "updated", file |-> r])
              /\ files'[r].path = p /\ files'[r].item = files[r].item
              /\ files'[r].size = SizeOf(fs[p].hash) /\ files'[r].hash = fs[p].hash
              /\ files'[r].mtime = fs[p].mtime /\ files'[r].status = "active"
              /\ \A o \in FileIds : o # r => files'[o] = files[o]]_vars

(* a file whose content was changed in place has been classified updated *)
C30_Witness ==
  /\ scan.pc = "walk" /\ entries # <<>>
  /\ entries[Len(entries)].action = "updated"
  /\ files[entries[Len(entries)].file].hash # scan.pre[entries[Len(entries)].file].hash
  /\ files[entries[Len(entries)].file].path = scan.pre[entries[Len(entries)].file].path
  /\ Len(files) = Len(scan.pre)

ItemFields == {"title", "language", "published_year", "description", "series", "series_index"}

(* the value a field gets when it is stored: a description is normalised *)
Stored(f, v) == IF f = "description" THEN normalize_optional_description(v) ELSE v

(* C31: apply_metadata keeps every non-null field of the item (a stored      *)
(* description in its normalised form), whatever was extracted, and a field *)
(* that was null gets the extracted value                                   *)
C31_FirstWriteWins ==
  ret.op = "apply_metadata" =>
    \A f \in ItemFields :
      IF ret.existing[f] # Null
      THEN items[1][f] = Stored(f, ret.existing[f])
      ELSE items[1][f] = Stored(f, ret.metadata[f])

(* the item had a title and a description, the file carries other ones, and *)
(* a language the item lacked                                               *)
C31_Witness ==
  /\ ret.op = "apply_metadata"
  /\ ret.existing.title # Null /\ ret.metadata.title \notin {Null, ret.existing.title}
  /\ ret.existing.description # Null
  /\ ret.metadata.description \notin {Null, ret.existing.description}
  /\ ret.existing.language = Null /\ ret.metadata.language # Null
  /\ items[1].title = ret.existing.title /\ items[1].language = ret.metadata.language

VisitTags == {"added", "updated", "moved", "unchanged"}

(* the indexes of the entries written in session k *)
SessionEntries(k) == {i \in DOMAIN entries : entries[i].session = k}

(* C32: after a scan that ran to its end, its session holds exactly one    *)
(* entry with a tag of the walk for every visited file and none for other  *)
(* paths, exactly one entry tagged missing for every record the scan       *)
(* turned from active to missing and none for other records, and every     *)
(* returned count is the number of the session's entries with that tag     *)
C32_ScanAudit ==
  ScanDone =>
    LET es == SessionEntries(ret.session)
        walk == {i \in es : entries[i].action \in VisitTags}
        miss == {i \in es : entries[i].action = "missing"}
    IN /\ es = walk \cup miss
       /\ \A p \in ret.seen : Cardinality({i \in walk : entries[i].path = p}) = 1
       /\ \A i \in walk : entries[i].path \in ret.seen
       /\ \A r \in FileIds :
            Cardinality({i \in miss : entries[i].file = r}) =
              IF /\ files[r].status = "missing"
                 /\ r \in DOMAIN ret.pre /\ ret.pre[r].status # "missing"
              THEN 1 ELSE 0
       /\ \A i \in miss : entries[i].file \in FileIds
       /\ \A t \in VisitTags \cup {"missing"} :
            ret.stats[t] = Cardinality({i \in es : entries[i].action = t})

(* a later scan visited a file and marked the record of a vanished one missing *)
C32_Witness ==
  /\ ScanDone
  /\ ret.session > 1 /\ ret.seen # {}
  /\ ret.stats.missing >= 1
  /\ \E i \in SessionEntries(ret.session) : entries[i].action = "missing"

(* C33: in every state an applied change has its applied time set and no    *)
(* error message, a change in error has an error message, and a pending    *)
(* change has no applied time                                               *)
C33_StatusFields ==
  \A c \in ChangeIds :
    /\ changes[c].status = "applied" =>
          changes[c].applied_at # NoTime /\ changes[c].error = NoError
    /\ changes[c].status = "error" => changes[c].error # NoError
    /\ changes[c].status = "pending" => changes[c].applied_at = NoTime

(* a change that was applied and then failed, next to an applied one *)
C33_Witness ==
  /\ \E c \in ChangeIds : changes[c].status = "error" /\ changes[c].applied_at # NoTime
  /\ \E c \in ChangeIds : changes[c].status = "applied"

(* the notifications of the first k changes of the queue: for the i-th a    *)
(* processing notification and then one done or error notification, both   *)
(* with current = i and total = the length of the queue                     *)
PerItemNotifications(ev, queue, k) ==
  /\ Len(ev) >= 2 * k
  /\ \A i \in 1..k :
       /\ ev[2 * i - 1] = OperationProgress(queue[i].id, "processing", i, Len(queue))
       /\ \E st \in {"done", "error"} :
            ev[2 * i] = OperationProgress(queue[i].id, st, i, Len(queue))

(* C34: while a batch runs, the notifications emitted so far are those of   *)
(* the changes handled so far, in order; when the batch has ended, every    *)
(* change of the batch has its processing notification and its done or      *)
(* error notification, and the summary comes last, after all of them        *)
C34_ProgressOrdering ==
  /\ batch.pc = "run" =>
       /\ Len(batch.events) = 2 * (batch.index - 1)
       /\ PerItemNotifications(batch.events, batch.queue, batch.index - 1)
  /\ ret.op \in {"apply", "apply_failed"} =>
       /\ Len(ret.events) = 2 * Len(ret.queue) + 1
       /\ PerItemNotifications(ret.events, ret.queue, Len(ret.queue))
       /\ ret.events[Len(ret.events)] = [event |-> "change-complete", stats |-> ret.stats]

(* C35: in a plan just made by plan_organize no two entries that are not    *)
(* skipped have the same target path                                        *)
C35_DistinctTargets ==
  Planned =>
    \A i, j \in DOMAIN plan.entries :
      (i # j /\ plan.entries[i].action # "skip" /\ plan.entries[j].action # "skip")
        => plan.entries[i].target # plan.entries[j].target

(* C36: when a rename change is handled while another file is at its to     *)
(* path, that file is left as it is and the change ends in error            *)
C36_RenameKeepsTarget ==
  [][Handling =>
       LET c == batch.queue[batch.index]
       IN (/\ c.type = "rename" /\ c.to # NoPath
           /\ Exists(c.to) /\ RenameFrom(c) # c.to) =>
            /\ fs'[c.to] = fs[c.to]
            /\ changes'[c.id].status = "error"]_vars

(* a step of the batch that runs the handler of the change at its position *)
Executing ==
  /\ batch.pc = "run" /\ batch.index <= Len(batch.queue)
  /\ Handling \/ (batch'.pc = "idle" /\ ret'.op = "apply_failed")

(* C37: no change is executed a second time.  A change whose status is no   *)
(* longer pending has been executed (C33), so every step that runs a        *)
(* handler runs it for a change that is pending, and the changes a batch    *)
(* has handled so far are pairwise different                                *)
C37_AtMostOnce ==
  [][Executing =>
       /\ changes[batch.queue[batch.index].id].status = "pending"
       /\ \A i \in 1..(batch.index - 1) :
            batch.queue[i].id # batch.queue[batch.index].id]_vars

(* the entries of the plan with action copy whose source file is on disk    *)
(* and is the file of the entry's record                                    *)
CopyEntries ==
  {i \in DOMAIN plan.entries :
     /\ plan.entries[i].action = "copy"
     /\ Exists(plan.entries[i].source)
     /\ plan.entries[i].file \in FileIds
     /\ files[plan.entries[i].file].path = plan.entries[i].source}

(* the change was queued from entry i of the plan *)
QueuedFrom(c, i) ==
  /\ c.type = "rename" /\ c.file = plan.entries[i].file
  /\ c.from = plan.entries[i].source /\ c.to = plan.entries[i].target

(* C38: a copy entry leaves its source file where it is and its record      *)
(* pointing to it, when apply_organize executes the plan and when the       *)
(* change queued from the entry is applied                                  *)
C38_CopyKeepsSource ==
  [][/\ (ret'.op = "apply_organize" /\ clock' # clock) =>
          \A i \in CopyEntries :
            /\ fs'[plan.entries[i].source] # NoFile
            /\ files'[plan.entries[i].file].path = plan.entries[i].source
     /\ Handling =>
          \A i \in CopyEntries :
            (/\ QueuedFrom(batch.queue[batch.index], i)
             /\ changes'[batch.queue[batch.index].id].status = "applied") =>
              /\ fs'[plan.entries[i].source] # NoFile
              /\ files'[plan.entries[i].file].path = plan.entries[i].source]_vars

(* the batch has applied, before its present position, a rename of the file *)
(* of change c, and the record and the file are at that rename's target     *)
RenamedEarlier(c) ==
  \E j \in 1..(batch.index - 1) :
    /\ batch.queue[j].type = "rename" /\ batch.queue[j].file = c.file
    /\ changes[batch.queue[j].id].status = "applied"
    /\ batch.queue[j].to # c.from
    /\ files[c.file].path = batch.queue[j].to
    /\ Exists(batch.queue[j].to)

(* C39: a metadata edit handled after a rename of its file, applied earlier *)
(* in the same batch, does not fail for a missing file; when it is applied, *)
(* the file at the record's path has been rewritten                         *)
C39_EditFollowsRename ==
  [][Handling =>
       LET c == batch.queue[batch.index]
       IN (/\ c.type = "epub_meta" /\ c.payload # NoPayload
           /\ c.file \in FileIds /\ changes[c.id].status = "pending"
           /\ RenamedEarlier(c)) =>
            /\ changes'[c.id].error # "No such file"
            /\ changes'[c.id].status = "applied" =>
                 fs'[files[c.file].path].mtime > fs[files[c.file].path].mtime]_vars

(* the step is the missing pass of a scan *)
Finishing == scan.pc = "walk" /\ scan'.pc = "idle" /\ ret'.op = "scan" /\ ret'.ok

====
